---------------------------- MODULE Spec2Model ----------------------------
(***************************************************************************)
(* Model of the ByteScout Auto API middleware (middleware.ts, index.ts,    *)
(* types.ts): request classification, the timeout-bounded fetch, the       *)
(* extraction of PageData and the process-wide in-memory cache.            *)
(*                                                                         *)
(* Strings are sequences of one-character strings, so that startsWith,     *)
(* slice and replace are computed and not assumed.  JavaScript runs each   *)
(* handler to its next await without interleaving, so one action is the    *)
(* code between two awaits.                                                *)
(***************************************************************************)
EXTENDS Integers, Sequences, FiniteSets, Bags, TLC

(***************************************************************************)
(* Bounds of the model                                                     *)
(***************************************************************************)
\* largest number of requests awaiting the origin at the same time
MaxInFlight == 2
\* horizon of the clock, in milliseconds
MaxNow == 61000
\* largest number of elements of a document the origin makes up
MaxElements == 3

(***************************************************************************)
(* SDK_CONSTANTS and literals of the code                                  *)
(***************************************************************************)
DEFAULT_CACHE_DURATION == 3600
DEFAULT_REQUEST_TIMEOUT == 5000
DEFAULT_MAX_CACHE_SIZE == 1048576
MIN_CACHE_DURATION == 60
MAX_CACHE_DURATION == 86400
MAX_PATH_LENGTH == 2000
DEFAULT_API_PREFIX == <<"/", "a", "p", "i">>

\* the value of an absent optional string field (undefined): no string, since
\* the elements of a string are single characters
Undefined == <<"undefined">>

(***************************************************************************)
(* String primitives                                                       *)
(***************************************************************************)
\* String.prototype.startsWith
startsWith(s, p) ==
    /\ Len(p) <= Len(s)
    /\ SubSeq(s, 1, Len(p)) = p

\* String.prototype.endsWith
endsWith(s, p) ==
    /\ Len(p) <= Len(s)
    /\ SubSeq(s, Len(s) - Len(p) + 1, Len(s)) = p

\* s.slice(0, -n)
sliceEnd(s, n) == SubSeq(s, 1, Len(s) - n)

\* index of the first occurrence of p in s, 0 when there is none
indexOf(s, p) ==
    LET starts == {i \in 1..(Len(s) - Len(p) + 1) : SubSeq(s, i, i + Len(p) - 1) = p}
    IN  IF starts = {} THEN 0
        ELSE CHOOSE i \in starts : \A j \in starts : i <= j

\* s.replace(p, r) with a string pattern: the first occurrence only
replaceFirst(s, p, r) ==
    LET i == indexOf(s, p)
    IN  IF i = 0 THEN s
        ELSE SubSeq(s, 1, i - 1) \o r \o SubSeq(s, i + Len(p), Len(s))

\* the character class of /[<>:"|?*]/
ForbiddenChars == {"<", ">", ":", "\"", "|", "?", "*"}

(***************************************************************************)
(* Path Classifier                                                         *)
(***************************************************************************)
\* a strip of the prefix that leaves the remainder as it is
extractPagePath_noSlash(pathname, apiPrefix) ==
    replaceFirst(pathname, apiPrefix, << >>)

extractPagePath(pathname, apiPrefix) ==
    LET stripped == replaceFirst(pathname, apiPrefix, << >>)
        pagePath == IF startsWith(stripped, <<"/">>) THEN stripped
                    ELSE <<"/">> \o stripped
    IN  IF pagePath = <<"/">> THEN <<"/">> ELSE pagePath

\* isValidPath without its test of the forbidden characters
isValidPath_lengthOnly(path) ==
    /\ startsWith(path, <<"/">>)
    /\ Len(path) <= MAX_PATH_LENGTH

isValidPath(path) ==
    /\ startsWith(path, <<"/">>)
    /\ ~ \E i \in 1..Len(path) : path[i] \in ForbiddenChars
    /\ Len(path) <= MAX_PATH_LENGTH

\* exclusion without the wildcard, on equality only
excludeMatches_exactOnly(path, excludePath) == path = excludePath

\* one pattern of excludePaths against a content path
excludeMatches(path, excludePath) ==
    IF endsWith(excludePath, <<"/", "*">>)
    THEN startsWith(path, sliceEnd(excludePath, 2))
    ELSE path = excludePath

isPathExcluded(path, excludePaths) ==
    \E i \in 1..Len(excludePaths) : excludeMatches(path, excludePaths[i])

(***************************************************************************)
(* Markup and the Extractor.  A document is the sequence of its elements,  *)
(* each with a tag and its text (for meta: the content attribute of        *)
(* <meta name="description" content="...">).                               *)
(***************************************************************************)
HeadingTags == {"h1", "h2", "h3", "h4", "h5", "h6"}

\* parseInt(tagName.substring(1))
headingLevel(tag) ==
    CASE tag = "h1" -> 1 [] tag = "h2" -> 2 [] tag = "h3" -> 3
      [] tag = "h4" -> 4 [] tag = "h5" -> 5 [] tag = "h6" -> 6

Whitespace == {" ", "\n", "\t"}

RECURSIVE trimStart(_)
trimStart(s) ==
    IF s # << >> /\ Head(s) \in Whitespace THEN trimStart(Tail(s)) ELSE s

RECURSIVE trimEnd(_)
trimEnd(s) ==
    IF s # << >> /\ s[Len(s)] \in Whitespace THEN trimEnd(sliceEnd(s, 1)) ELSE s

\* a trim of the leading whitespace only
trim_startOnly(s) == trimStart(s)

\* String.prototype.trim
trim(s) == trimEnd(trimStart(s))

\* the elements of a document a selector matches, in document order
selectTags(html, tags) == SelectSeq(html, LAMBDA e : e.tag \in tags)

\* cheerio .text() of a selection: the texts of all matched elements, joined
RECURSIVE textOf(_)
textOf(sel) == IF sel = << >> THEN << >> ELSE Head(sel).text \o textOf(Tail(sel))

\* html.length of the serialized document
elemLength(e) ==
    CASE e.tag = "title" -> 15 + Len(e.text)
      [] e.tag \in HeadingTags -> 9 + Len(e.text)
      [] e.tag = "meta" -> 36 + Len(e.text)
      [] OTHER -> 7 + Len(e.text)

RECURSIVE htmlLength(_)
htmlLength(html) ==
    IF html = << >> THEN 0 ELSE elemLength(Head(html)) + htmlLength(Tail(html))

\* the double quotes of the serialized document, each escaped by JSON.stringify
htmlQuotes(html) == 4 * Len(selectTags(html, {"meta"}))

\* a timestamp in a local time one hour ahead of UTC, written as if it were UTC
toISOString_localTime(ms) ==
    [day    |-> (ms + 3600000) \div 86400000,
     hour   |-> ((ms + 3600000) \div 3600000) % 24,
     minute |-> (ms \div 60000) % 60,
     second |-> (ms \div 1000) % 60,
     milli  |-> ms % 1000]

\* new Date(now).toISOString(): the calendar fields of an epoch instant
toISOString(ms) ==
    [day    |-> ms \div 86400000,
     hour   |-> (ms \div 3600000) % 24,
     minute |-> (ms \div 60000) % 60,
     second |-> (ms \div 1000) % 60,
     milli  |-> ms % 1000]

\* the length of an ISO-8601 timestamp "YYYY-MM-DDTHH:mm:ss.sssZ"
ISO_LENGTH == 24

\* the headings loop of extractPageData
RECURSIVE collectHeadings(_)
collectHeadings(sel) ==
    IF sel = << >> THEN << >>
    ELSE LET text == trim(Head(sel).text)
             rest == collectHeadings(Tail(sel))
         IN  IF text # << >>
             THEN <<[level |-> headingLevel(Head(sel).tag), text |-> text]>> \o rest
             ELSE rest

extractPageData(html, pagePath, receiverUsername, now) ==
    LET metas == selectTags(html, {"meta"})
        h1s   == selectTags(html, {"h1"})
    IN  [path             |-> pagePath,
         timestamp        |-> toISOString(now),
         title            |-> trim(textOf(selectTags(html, {"title"}))),
         h1               |-> IF h1s = << >> THEN << >> ELSE trim(Head(h1s).text),
         html             |-> html,
         receiverUsername |-> receiverUsername,
         contentLength    |-> htmlLength(html),
         extractedAt      |-> now,
         statusCode       |-> 200,
         headings         |-> collectHeadings(selectTags(html, HeadingTags)),
         metaDescription  |-> IF metas = << >> THEN Undefined
                              ELSE trim(Head(metas).text)]

(***************************************************************************)
(* JSON.stringify(data).length                                             *)
(***************************************************************************)
\* number of decimal digits of a non-negative integer
RECURSIVE digits(_)
digits(n) == IF n < 10 THEN 1 ELSE 1 + digits(n \div 10)

\* "key":"value" and "key":number, the key given by its length
jsonString(keyLen, valueLen) == keyLen + 3 + valueLen + 2
jsonNumber(keyLen, n) == keyLen + 3 + digits(n)

\* [{"level":N,"text":"..."},...]
RECURSIVE headingsJson(_)
headingsJson(hs) ==
    IF hs = << >> THEN 0
    ELSE 21 + Len(Head(hs).text) + (IF Len(hs) > 1 THEN 1 ELSE 0)
         + headingsJson(Tail(hs))

jsonLength(data) ==
    LET receiver == IF data.receiverUsername = Undefined THEN 0
                    ELSE 1 + jsonString(16, Len(data.receiverUsername))
        meta     == IF data.metaDescription = Undefined THEN 0
                    ELSE 1 + jsonString(15, Len(data.metaDescription))
    IN  2 + jsonString(4, Len(data.path))
          + 1 + jsonString(9, ISO_LENGTH)
          + 1 + jsonString(5, Len(data.title))
          + 1 + jsonString(2, Len(data.h1))
          + 1 + jsonString(4, htmlLength(data.html) + htmlQuotes(data.html))
          + receiver
          + 1 + jsonNumber(13, data.contentLength)
          + 1 + jsonNumber(11, data.extractedAt)
          + 1 + jsonNumber(10, data.statusCode)
          + 1 + (8 + 3 + 2 + headingsJson(data.headings))
          + meta

\* (data.html?.length || 0) + JSON.stringify(data).length
dataSizeOf(data) == htmlLength(data.html) + jsonLength(data)

(***************************************************************************)
(* Cache: the module-level Map, in its iteration (key insertion) order, as *)
(* a sequence of [key, data, timestamp, size], and totalCacheSize.         *)
(***************************************************************************)
cacheHas(cache, key) == \E i \in 1..Len(cache) : cache[i].key = key

\* Map.prototype.get; only used where the key is present
cacheGet(cache, key) == cache[CHOOSE i \in 1..Len(cache) : cache[i].key = key]

\* Map.prototype.delete
cacheDelete(cache, key) == SelectSeq(cache, LAMBDA e : e.key # key)

\* a set that appends without looking for the key
cacheSet_append(cache, entry) == Append(cache, entry)

\* Map.prototype.set: a present key keeps its position, a new key goes last
cacheSet(cache, entry) ==
    IF cacheHas(cache, entry.key)
    THEN [i \in 1..Len(cache) |->
            IF cache[i].key = entry.key THEN entry ELSE cache[i]]
    ELSE Append(cache, entry)

\* the expiry test with the duration left in seconds
isExpired_seconds(entry, cacheDuration, now) ==
    now - entry.timestamp > cacheDuration

\* an expiry test that takes the entry of exactly the given age as expired
isExpired_inclusive(entry, cacheDuration, now) ==
    now - entry.timestamp >= cacheDuration * 1000

\* isExpired of getCachedData
isExpired(entry, cacheDuration, now) ==
    now - entry.timestamp > cacheDuration * 1000

\* a lookup that drops the entry it finds, expired or not
getCachedData_dropOnRead(cache, total, pagePath, cacheDuration, now) ==
    IF ~ cacheHas(cache, pagePath)
    THEN [cache |-> cache, total |-> total, hit |-> FALSE, data |-> Undefined]
    ELSE [cache |-> cacheDelete(cache, pagePath),
          total |-> total - cacheGet(cache, pagePath).size,
          hit   |-> FALSE,
          data  |-> Undefined]

\* a lookup that subtracts the size of an expired entry and leaves the entry
getCachedData_keepExpired(cache, total, pagePath, cacheDuration, now) ==
    IF ~ cacheHas(cache, pagePath)
    THEN [cache |-> cache, total |-> total, hit |-> FALSE, data |-> Undefined]
    ELSE LET cachedEntry == cacheGet(cache, pagePath)
         IN  IF isExpired(cachedEntry, cacheDuration, now)
             THEN [cache |-> cache,
                   total |-> total - cachedEntry.size,
                   hit   |-> FALSE,
                   data  |-> Undefined]
             ELSE [cache |-> cache, total |-> total,
                   hit |-> TRUE, data |-> cachedEntry.data]

\* a lookup that renews the timestamp of the entry it returns
getCachedData_touch(cache, total, pagePath, cacheDuration, now) ==
    IF ~ cacheHas(cache, pagePath)
    THEN [cache |-> cache, total |-> total, hit |-> FALSE, data |-> Undefined]
    ELSE LET cachedEntry == cacheGet(cache, pagePath)
         IN  IF isExpired(cachedEntry, cacheDuration, now)
             THEN [cache |-> cacheDelete(cache, pagePath),
                   total |-> total - cachedEntry.size,
                   hit   |-> FALSE,
                   data  |-> Undefined]
             ELSE [cache |-> [i \in 1..Len(cache) |->
                                IF cache[i].key = pagePath
                                THEN [cache[i] EXCEPT !.timestamp = now]
                                ELSE cache[i]],
                   total |-> total,
                   hit |-> TRUE, data |-> cachedEntry.data]

\* getCachedData: the cache and total it leaves, and the data it returns
\* (hit) or null (no hit)
getCachedData(cache, total, pagePath, cacheDuration, now) ==
    IF ~ cacheHas(cache, pagePath)
    THEN [cache |-> cache, total |-> total, hit |-> FALSE, data |-> Undefined]
    ELSE LET cachedEntry == cacheGet(cache, pagePath)
         IN  IF isExpired(cachedEntry, cacheDuration, now)
             THEN [cache |-> cacheDelete(cache, pagePath),
                   total |-> total - cachedEntry.size,
                   hit   |-> FALSE,
                   data  |-> Undefined]
             ELSE [cache |-> cache, total |-> total,
                   hit |-> TRUE, data |-> cachedEntry.data]

\* the admission test on the length of the markup alone
shouldCacheData_markupOnly(data, maxCacheSize) ==
    htmlLength(data.html) <= maxCacheSize

shouldCacheData(data, maxCacheSize) == dataSizeOf(data) <= maxCacheSize

\* an eviction loop that removes the newest entry first
RECURSIVE evictOld_newestFirst(_, _, _, _)
evictOld_newestFirst(cache, total, dataSize, maxCacheSize) ==
    IF total + dataSize > maxCacheSize /\ Len(cache) > 0
    THEN evictOld_newestFirst(sliceEnd(cache, 1), total - cache[Len(cache)].size,
                              dataSize, maxCacheSize)
    ELSE [cache |-> cache, total |-> total]

\* an eviction that empties the cache and resets the total as soon as the
\* new entry does not fit
evictOld_all(cache, total, dataSize, maxCacheSize) ==
    IF total + dataSize > maxCacheSize
    THEN [cache |-> << >>, total |-> 0]
    ELSE [cache |-> cache, total |-> total]

\* the eviction loop of cachePageData
RECURSIVE evictOld(_, _, _, _)
evictOld(cache, total, dataSize, maxCacheSize) ==
    IF total + dataSize > maxCacheSize /\ Len(cache) > 0
    THEN evictOld(Tail(cache), total - Head(cache).size, dataSize, maxCacheSize)
    ELSE [cache |-> cache, total |-> total]

cachePageData(cache, total, pagePath, data, maxCacheSize, now) ==
    LET dataSize == dataSizeOf(data)
        evicted  == evictOld(cache, total, dataSize, maxCacheSize)
        cachedEntry == [key |-> pagePath, data |-> data,
                        timestamp |-> now, size |-> dataSize]
    IN  [cache |-> cacheSet(evicted.cache, cachedEntry),
         total |-> evicted.total + dataSize,
         evicted |-> Len(cache) - Len(evicted.cache)]

\* the entries clearExpiredCache removes
expiredEntries(cache, cacheDuration, now) ==
    SelectSeq(cache, LAMBDA e : now - e.timestamp > cacheDuration * 1000)

RECURSIVE sumSizes(_)
sumSizes(entries) ==
    IF entries = << >> THEN 0 ELSE Head(entries).size + sumSizes(Tail(entries))

\* a sweep that also removes the entries of exactly the given age
clearExpiredCache_inclusive(cache, total, cacheDuration, now) ==
    LET removed == SelectSeq(cache, LAMBDA e : now - e.timestamp >= cacheDuration * 1000)
    IN  [cache |-> SelectSeq(cache, LAMBDA e : ~ (now - e.timestamp >= cacheDuration * 1000)),
         total |-> total - sumSizes(removed),
         removedCount |-> Len(removed)]

clearExpiredCache(cache, total, cacheDuration, now) ==
    LET removed == expiredEntries(cache, cacheDuration, now)
    IN  [cache |-> SelectSeq(cache, LAMBDA e : ~ (now - e.timestamp > cacheDuration * 1000)),
         total |-> total - sumSizes(removed),
         removedCount |-> Len(removed)]

\* Math.round of a non-negative quotient a / b
roundDiv(a, b) == (2 * a + b) \div (2 * b)

getCacheStats(cache, total) ==
    [entries     |-> Len(cache),
     totalSize   |-> total,
     averageSize |-> IF Len(cache) > 0 THEN roundDiv(total, Len(cache)) ELSE 0]

(***************************************************************************)
(* Configuration.  A raw AutoApiConfig is a record holding only the        *)
(* options that were given.                                                *)
(***************************************************************************)
\* a normalization that ignores what was given
orDefault_defaultOnly(config, f, d) == d

\* config.f ?? d
orDefault(config, f, d) == IF f \in DOMAIN config THEN config[f] ELSE d

\* the normalized configuration validateAndNormalizeConfig returns
normalizeConfig(config) ==
    [enabled           |-> orDefault(config, "enabled", TRUE),
     apiPrefix         |-> orDefault(config, "apiPrefix", DEFAULT_API_PREFIX),
     excludePaths      |-> orDefault(config, "excludePaths", << >>),
     additionalHeaders |-> orDefault(config, "additionalHeaders", {}),
     enableCache       |-> orDefault(config, "enableCache", FALSE),
     cacheDuration     |-> orDefault(config, "cacheDuration", DEFAULT_CACHE_DURATION),
     receiverUsername  |-> orDefault(config, "receiverUsername", Undefined),
     maxCacheSize      |-> orDefault(config, "maxCacheSize", DEFAULT_MAX_CACHE_SIZE),
     requestTimeout    |-> orDefault(config, "requestTimeout", DEFAULT_REQUEST_TIMEOUT)]

\* The values of a raw configuration come from untyped JavaScript: each is
\* held with what typeof, Array.isArray, Number.isInteger and === null say of it
jsValue(type, null, array, integer, v) ==
    [typeof |-> type, isNull |-> null, isArray |-> array, isInteger |-> integer,
     value |-> v]

str(s) == jsValue("string", FALSE, FALSE, FALSE, s)
num(n) == jsValue("number", FALSE, FALSE, TRUE, n)
\* a number with a fractional part, n + 0.5
nonInteger(n) == jsValue("number", FALSE, FALSE, FALSE, n)
bool(b) == jsValue("boolean", FALSE, FALSE, FALSE, b)
\* an array of values
arr(a) == jsValue("object", FALSE, TRUE, FALSE, a)
\* an object, as the set of its <<key, value>> entries
obj(o) == jsValue("object", FALSE, FALSE, FALSE, o)
null == jsValue("object", TRUE, FALSE, FALSE, {})

\* the violation messages of the four checks
ApiPrefixMessage == "apiPrefix must be a string starting with \"/\""
CacheDurationMessage == "cacheDuration must be an integer between 60 and 86400"
ExcludePathsMessage == "excludePaths must be an array of strings"
AdditionalHeadersMessage == "additionalHeaders must be an object"

\* the errors array of validateAndNormalizeConfig with the checks chained by
\* else: only the first violation is reported
configErrors_firstOnly(config) ==
    IF "apiPrefix" \in DOMAIN config
       /\ (config.apiPrefix.typeof # "string"
           \/ ~ startsWith(config.apiPrefix.value, <<"/">>))
    THEN <<ApiPrefixMessage>>
    ELSE IF "cacheDuration" \in DOMAIN config
            /\ (\/ ~ (config.cacheDuration.typeof = "number"
                       /\ config.cacheDuration.isInteger)
                \/ config.cacheDuration.value < MIN_CACHE_DURATION
                \/ config.cacheDuration.value > MAX_CACHE_DURATION)
    THEN <<CacheDurationMessage>>
    ELSE IF "excludePaths" \in DOMAIN config
            /\ (\/ ~ config.excludePaths.isArray
                \/ \E i \in 1..Len(config.excludePaths.value) :
                      config.excludePaths.value[i].typeof # "string")
    THEN <<ExcludePathsMessage>>
    ELSE IF "additionalHeaders" \in DOMAIN config
            /\ (config.additionalHeaders.typeof # "object"
                \/ config.additionalHeaders.isNull)
    THEN <<AdditionalHeadersMessage>>
    ELSE << >>

\* the errors array of validateAndNormalizeConfig after its four checks
configErrors(config) ==
    (IF "apiPrefix" \in DOMAIN config
        /\ (config.apiPrefix.typeof # "string"
            \/ ~ startsWith(config.apiPrefix.value, <<"/">>))
     THEN <<ApiPrefixMessage>> ELSE << >>)
    \o (IF "cacheDuration" \in DOMAIN config
           /\ (\/ ~ (config.cacheDuration.typeof = "number"
                      /\ config.cacheDuration.isInteger)
               \/ config.cacheDuration.value < MIN_CACHE_DURATION
               \/ config.cacheDuration.value > MAX_CACHE_DURATION)
        THEN <<CacheDurationMessage>> ELSE << >>)
    \o (IF "excludePaths" \in DOMAIN config
           /\ (\/ ~ config.excludePaths.isArray
               \/ \E i \in 1..Len(config.excludePaths.value) :
                     config.excludePaths.value[i].typeof # "string")
        THEN <<ExcludePathsMessage>> ELSE << >>)
    \o (IF "additionalHeaders" \in DOMAIN config
           /\ (config.additionalHeaders.typeof # "object"
               \/ config.additionalHeaders.isNull)
        THEN <<AdditionalHeadersMessage>> ELSE << >>)

\* an option that is undefined, left out or given so
jsUndefined == jsValue("undefined", FALSE, FALSE, FALSE, {})

\* a raw configuration from the value of each option: config.f !== undefined
\* holds of the options in its domain
rawConfig(options) ==
    [f \in {g \in DOMAIN options : options[g].typeof # "undefined"} |-> options[f]]

\* the plain value of a JavaScript value that passed the checks
valueOf(v) ==
    IF v.isArray THEN [i \in 1..Len(v.value) |-> v.value[i].value] ELSE v.value

\* the options of a configuration that are neither undefined nor null
valuesOf(config) ==
    [f \in {g \in DOMAIN config : ~ config[g].isNull} |-> valueOf(config[f])]

\* validateAndNormalizeConfig: throws an AutoApiError of type INVALID_CONFIG
\* with the joined violations, or returns the normalized configuration
validateAndNormalizeConfig(config) ==
    LET errors == configErrors(config)
    IN  IF Len(errors) > 0
        THEN [threw |-> TRUE,
              error |-> [typed |-> TRUE, type |-> "INVALID_CONFIG",
                         statusCode |-> 0, errors |-> errors]]
        ELSE [threw |-> FALSE, config |-> normalizeConfig(valuesOf(config))]

\* withAutoApiMiddleware: the outcome of constructing a middleware from a
\* raw configuration; a middleware function is returned only when
\* validation did not throw, and it closes over the validated configuration
withAutoApiMiddleware(config) ==
    LET validated == validateAndNormalizeConfig(config)
    IN  IF validated.threw
        THEN [raw |-> config, returned |-> FALSE, error |-> validated.error]
        ELSE [raw |-> config, returned |-> TRUE, config |-> validated.config]

\* a well-typed configuration as the JavaScript values it is made of
given(raw) ==
    [f \in DOMAIN raw |->
        CASE f \in {"apiPrefix", "receiverUsername"} -> str(raw[f])
          [] f \in {"cacheDuration", "maxCacheSize", "requestTimeout"} -> num(raw[f])
          [] f = "excludePaths" -> arr([i \in 1..Len(raw[f]) |-> str(raw[f][i])])
          [] f = "additionalHeaders" -> obj(raw[f])
          [] OTHER -> bool(raw[f])]

\* the configurations the application constructs its middlewares from
RawConfigs ==
    [A |-> [enableCache |-> TRUE, cacheDuration |-> 60,
            receiverUsername |-> <<"A">>, maxCacheSize |-> 700,
            requestTimeout |-> 1000,
            excludePaths |-> << <<"/", "p", "/", "*">>, <<"/", "q">> >>,
            additionalHeaders |-> {<<"X-API-Version", "1">>,
                                   <<"content-type", "text/json">>}],
     B |-> [enableCache |-> TRUE, cacheDuration |-> 60,
            receiverUsername |-> <<"B">>, maxCacheSize |-> 300,
            requestTimeout |-> 1000],
     D |-> [enabled |-> FALSE, enableCache |-> TRUE, cacheDuration |-> 60,
            receiverUsername |-> <<"D">>, requestTimeout |-> 1000],
     E |-> [receiverUsername |-> <<"E">>, requestTimeout |-> 1000],
     F |-> [enableCache |-> TRUE, cacheDuration |-> 60,
            receiverUsername |-> <<"F">>, maxCacheSize |-> 900,
            requestTimeout |-> 1000],
     G |-> [enableCache |-> TRUE, cacheDuration |-> 60,
            receiverUsername |-> <<"G">>, maxCacheSize |-> 500,
            requestTimeout |-> 1000]]

\* the outcome of withAutoApiMiddleware for each of them
Constructed ==
    [m \in DOMAIN RawConfigs |-> withAutoApiMiddleware(given(RawConfigs[m]))]

\* the validated configuration each middleware function closes over
Middleware == [m \in DOMAIN RawConfigs |-> Constructed[m].config]

(***************************************************************************)
(* The origin server and the inbound requests                              *)
(***************************************************************************)
\* request.headers.get('host') of a request without a Host header
NoHost == ""

PathA == <<"/", "a">>
PathB == <<"/", "b">>
PathC == <<"/", "c">>
PathPX == <<"/", "p", "/", "x">>

DocA1 == << [tag |-> "title", text |-> <<"A">>], [tag |-> "h1", text |-> <<" ", "H">>] >>
DocA2 == << [tag |-> "title", text |-> <<"Z">>], [tag |-> "h1", text |-> <<"H">>] >>
DocB  == << [tag |-> "title", text |-> <<"B">>], [tag |-> "h2", text |-> <<"S">>] >>
DocC  == << [tag |-> "title", text |-> <<"C">>],
            [tag |-> "meta", text |-> <<"d">>],
            [tag |-> "h1", text |-> <<"H">>],
            [tag |-> "p", text |-> <<"l", "o", "n", "g", " ", "t", "e", "x", "t">>] >>

\* the pages the origin serves, per host
originPages(host) ==
    IF host = "h2" THEN (PathA :> DocA2)
    ELSE (PathA :> DocA1) @@ (PathB :> DocB) @@ (PathC :> DocC) @@ (PathPX :> DocB)

originStatus(url) ==
    IF url.path \in DOMAIN originPages(url.host) THEN 200 ELSE 404

originMarkup(url) == originPages(url.host)[url.path]

LongPath == [i \in 1..(MAX_PATH_LENGTH + 1) |-> IF i = 1 THEN "/" ELSE "x"]

\* request.nextUrl.pathname and the Host header of the inbound requests
Requests ==
    { [pathname |-> DEFAULT_API_PREFIX \o PathA, host |-> "h1"],
      [pathname |-> DEFAULT_API_PREFIX \o PathA, host |-> "h2"],
      [pathname |-> DEFAULT_API_PREFIX \o PathA, host |-> NoHost],
      [pathname |-> DEFAULT_API_PREFIX \o PathB, host |-> "h1"],
      [pathname |-> DEFAULT_API_PREFIX \o PathC, host |-> "h1"],
      [pathname |-> DEFAULT_API_PREFIX \o <<"/", "n">>, host |-> "h1"],
      [pathname |-> DEFAULT_API_PREFIX, host |-> "h1"],
      [pathname |-> <<"/", "o">>, host |-> "h1"],
      [pathname |-> <<"/", "o", "*">>, host |-> "h1"],
      [pathname |-> DEFAULT_API_PREFIX \o <<"/", "p">>, host |-> "h1"],
      [pathname |-> DEFAULT_API_PREFIX \o PathPX, host |-> "h1"],
      [pathname |-> DEFAULT_API_PREFIX \o <<"/", "p", "/", "x", "/", "y">>, host |-> "h1"],
      [pathname |-> DEFAULT_API_PREFIX \o <<"/", "p", "r">>, host |-> "h1"],
      [pathname |-> DEFAULT_API_PREFIX \o <<"/", "q">>, host |-> "h1"],
      [pathname |-> DEFAULT_API_PREFIX \o <<"/", "a", ":">>, host |-> "h1"],
      [pathname |-> DEFAULT_API_PREFIX \o <<"/", "p", "/", "*">>, host |-> "h1"],
      [pathname |-> DEFAULT_API_PREFIX \o LongPath, host |-> "h1"] }

\* the requests for the cacheable pages
PageRequests ==
    {r \in Requests : r.pathname \in {DEFAULT_API_PREFIX \o PathA,
                                      DEFAULT_API_PREFIX \o PathB,
                                      DEFAULT_API_PREFIX \o PathC}}

\* which middleware receives which requests: the traffic of one middleware
\* on the cached pages
Traffic ==
    {<<"A", rq>> : rq \in {r \in PageRequests : r.host # "h2"}}

\* the traffic of every shape of path, on one page
PathTraffic ==
    {<<"A", rq>> : rq \in {r \in Requests : r.host = "h1" /\ r \notin PageRequests}}
    \cup {<<"B", [pathname |-> DEFAULT_API_PREFIX \o PathPX, host |-> "h1"]>>}
    \cup {<<"D", [pathname |-> pathname, host |-> "h1"]>> :
            pathname \in {DEFAULT_API_PREFIX \o PathPX,
                          DEFAULT_API_PREFIX \o <<"/", "a", ":">>,
                          <<"/", "o">>}}

\* the traffic of two middlewares and of the failures: a page at both, a
\* page too large for the second, a page the origin does not have, a
\* request without a Host header, an invalid path and a path off the prefix
ErrorTraffic ==
    {<<"A", [pathname |-> DEFAULT_API_PREFIX \o PathA, host |-> "h1"]>>,
     <<"A", [pathname |-> DEFAULT_API_PREFIX \o PathA, host |-> NoHost]>>,
     <<"A", [pathname |-> DEFAULT_API_PREFIX \o <<"/", "n">>, host |-> "h1"]>>,
     <<"A", [pathname |-> DEFAULT_API_PREFIX \o <<"/", "a", ":">>, host |-> "h1"]>>,
     <<"A", [pathname |-> <<"/", "o">>, host |-> "h1"]>>,
     <<"B", [pathname |-> DEFAULT_API_PREFIX \o PathA, host |-> "h1"]>>,
     <<"B", [pathname |-> DEFAULT_API_PREFIX \o PathC, host |-> "h1"]>>}

\* the traffic while the cache is swept: two pages at one middleware
SweepTraffic ==
    {<<"A", [pathname |-> DEFAULT_API_PREFIX \o PathA, host |-> "h1"]>>,
     <<"A", [pathname |-> DEFAULT_API_PREFIX \o PathB, host |-> "h1"]>>}

\* the cacheDuration arguments of clearCache: left out, valid and invalid
ClearCacheArguments == {jsUndefined, num(1), num(60), num(0), nonInteger(1)}

\* the raw configurations withAutoApiMiddleware is called with: each
\* checked option left out, valid, and invalid in each way its check tells
ConfigInputs ==
    { rawConfig([apiPrefix         |-> a,
                 cacheDuration     |-> d,
                 excludePaths      |-> e,
                 additionalHeaders |-> h,
                 enabled           |-> en,
                 enableCache       |-> o.enableCache,
                 maxCacheSize      |-> o.maxCacheSize,
                 requestTimeout    |-> o.requestTimeout,
                 receiverUsername  |-> o.receiverUsername]) :
        a \in {jsUndefined, str(<<"/", "v">>), str(<<"a", "p", "i">>), num(5)},
        d \in {jsUndefined, num(59), num(60), num(86400), num(86401),
               nonInteger(60), str(<<"6", "0">>)},
        e \in {jsUndefined, arr(<<str(<<"/", "q">>)>>), str(<<"/", "q">>),
               arr(<<str(<<"/", "q">>), num(1)>>)},
        h \in {jsUndefined, obj({<<"X-API-Version", "1">>}), null, str(<<"X">>)},
        en \in {jsUndefined, bool(FALSE)},
        o \in {[enableCache |-> jsUndefined, maxCacheSize |-> jsUndefined,
                requestTimeout |-> jsUndefined, receiverUsername |-> jsUndefined],
               [enableCache |-> bool(TRUE), maxCacheSize |-> num(700),
                requestTimeout |-> num(1000), receiverUsername |-> str(<<"A">>)]} }

\* the requests a middleware under construction receives once it exists
ConfigTraffic ==
    {<<"M", [pathname |-> DEFAULT_API_PREFIX \o PathA, host |-> "h1"]>>,
     <<"M", [pathname |-> <<"/", "v">> \o PathA, host |-> "h1"]>>,
     <<"M", [pathname |-> <<"/", "o">>, host |-> "h1"]>>}

\* the traffic of a middleware with a cache and of one without, on one
\* page: the page, a request without a Host header, an invalid path, a page
\* the origin does not have and a path off the prefix
NoCacheTraffic ==
    {<<"A", [pathname |-> DEFAULT_API_PREFIX \o PathA, host |-> "h1"]>>,
     <<"E", [pathname |-> DEFAULT_API_PREFIX \o PathA, host |-> "h1"]>>,
     <<"E", [pathname |-> DEFAULT_API_PREFIX \o PathA, host |-> NoHost]>>,
     <<"E", [pathname |-> DEFAULT_API_PREFIX \o <<"/", "a", ":">>, host |-> "h1"]>>,
     <<"E", [pathname |-> DEFAULT_API_PREFIX \o <<"/", "n">>, host |-> "h1"]>>,
     <<"E", [pathname |-> <<"/", "o">>, host |-> "h1"]>>}

\* the traffic of one middleware whose limit holds any two of the three
\* pages and a second copy of the smaller ones
OrderTraffic ==
    {<<"F", rq>> : rq \in {r \in PageRequests : r.host = "h1"}}

\* the traffic of one middleware whose limit holds one page and a second
\* copy of the smaller ones
LimitTraffic ==
    {<<"G", rq>> : rq \in {r \in PageRequests : r.host = "h1"}}

\* the traffic of one middleware that is reached under two host names
HostTraffic ==
    {<<"A", rq>> : rq \in {r \in Requests : r.pathname = DEFAULT_API_PREFIX \o PathA
                                            /\ r.host # NoHost}}

\* the traffic on the edge of the prefix: the prefix alone, the prefix gone
\* on without a "/", and the same page under the prefix and a "/"
PrefixTraffic ==
    {<<"A", [pathname |-> DEFAULT_API_PREFIX, host |-> "h1"]>>,
     <<"A", [pathname |-> DEFAULT_API_PREFIX \o <<"a">>, host |-> "h1"]>>,
     <<"A", [pathname |-> DEFAULT_API_PREFIX \o PathA, host |-> "h1"]>>}

\* the traffic while the origin makes up its documents: one page at a
\* middleware without a cache
DocTraffic ==
    {<<"E", [pathname |-> DEFAULT_API_PREFIX \o PathA, host |-> "h1"]>>}

\* the elements of those documents: a title, headings of three levels and a
\* paragraph, with a text of whitespace alone or padded with whitespace
Elements ==
    [tag : {"title", "h1", "h2", "h6", "p"},
     text : {<<" ">>, <<" ", "H">>, <<"S", " ">>}]

\* the documents of up to n elements
RECURSIVE documentsUpTo(_)
documentsUpTo(n) ==
    IF n = 0 THEN {<< >>}
    ELSE LET shorter == documentsUpTo(n - 1)
         IN  shorter \cup {Append(d, e) : d \in shorter, e \in Elements}

Documents == documentsUpTo(MaxElements)

\* the instants at which the clock is read
Instants == {0, MIN_CACHE_DURATION * 1000, MaxNow}

\* cacheDuration arguments of the maintenance sweep
SweepDurations == {1, 60}

(***************************************************************************)
(* Responses and errors                                                    *)
(***************************************************************************)
\* NextResponse.next()
nextResponse == [kind |-> "next"]

\* the headers NextResponse.json gives its response, as <<name, value>>
\* entries; header names are written in lower case where they can collide
JsonHeaders == {<<"content-type", "application/json">>}

\* a merge that leaves a header the response already has as it is
applyAdditionalHeaders_keepExisting(responseHeaders, headers) ==
    responseHeaders
      \cup {h \in headers : \A e \in responseHeaders : e[1] # h[1]}

\* applyAdditionalHeaders: response.headers.set(key, value) for each entry of
\* headers (a Record<string, string>: every key and value is a string);
\* set replaces the value a name already has
applyAdditionalHeaders(responseHeaders, headers) ==
    {e \in responseHeaders : \A h \in headers : h[1] # e[1]} \cup headers

\* NextResponse.json(pageData, {status: 200}) after applyAdditionalHeaders
jsonResponse(pageData, additionalHeaders) ==
    [kind |-> "json", status |-> 200, body |-> pageData,
     headers |-> applyAdditionalHeaders(JsonHeaders, additionalHeaders)]

createErrorResponse(status, type) ==
    [kind |-> "error", status |-> status, type |-> type]

\* a thrown value: an AutoApiError (typed, statusCode 0 when it carries none)
\* or any other Error
autoApiError(type, statusCode) ==
    [typed |-> TRUE, type |-> type, statusCode |-> statusCode]
otherError == [typed |-> FALSE, type |-> "TypeError", statusCode |-> 0]

\* the rejection of an aborted fetch: a DOMException named AbortError
abortError == [typed |-> FALSE, type |-> "AbortError", statusCode |-> 0]

\* nothing was thrown
noError == [typed |-> FALSE, type |-> "none", statusCode |-> 0]

\* the catch block of fetchPageContent, after its clearTimeout
fetchPageContentCatch(error) ==
    IF ~ error.typed /\ error.type = "AbortError"
    THEN autoApiError("TIMEOUT_ERROR", 408)
    ELSE error

\* the catch block of extractPageData
extractPageDataCatch(error) == autoApiError("PARSE_ERROR", 0)

\* a catch block of getPageData that wraps whatever it catches
getPageDataCatch_wrapAll(error) == autoApiError("FETCH_ERROR", 0)

\* the catch block of getPageData
getPageDataCatch(error) ==
    IF error.typed THEN error ELSE autoApiError("FETCH_ERROR", 0)

\* handleMiddlewareError without error.statusCode
handleMiddlewareError_always500(error) ==
    IF error.typed
    THEN createErrorResponse(500, error.type)
    ELSE createErrorResponse(500, "FETCH_ERROR")

\* a catch block of middleware that handles the errors with a status code
\* and throws the others on to the framework
handleMiddlewareError_rethrow(error) ==
    IF error.typed /\ error.statusCode # 0
    THEN createErrorResponse(error.statusCode, error.type)
    ELSE [kind |-> "exception", status |-> 0, type |-> error.type]

handleMiddlewareError(error) ==
    IF error.typed
    THEN createErrorResponse(IF error.statusCode # 0 THEN error.statusCode ELSE 500,
                             error.type)
    ELSE createErrorResponse(500, "FETCH_ERROR")

\* new URL(pagePath, protocol//host)
constructPageUrl(host, pagePath) == [host |-> host, path |-> pagePath]

(***************************************************************************)
(* State                                                                   *)
(***************************************************************************)
VARIABLES
    cache,           \* the Map of cached entries, in iteration order
    totalCacheSize,  \* the running total
    now,             \* Date.now()
    inflight,        \* bag of the requests awaiting the origin
    last,            \* the request completed by the latest step, if any
    timers,          \* number of timeouts set and neither cleared nor fired
    middlewares      \* the outcome of each call of withAutoApiMiddleware

vars == <<cache, totalCacheSize, now, inflight, last, timers, middlewares>>

\* the value of last after a step that completes no request
NoRequest == [response |-> [kind |-> "none"]]

\* the record of a completed request: what it was, the response, what it
\* did on the way (cache lookup, origin fetch, extraction, cache write and the
\* number of entries the write evicted), and the error that was thrown at
\* the point where it arose (noError when none was)
completed(m, rq, pagePath, response, lookedUp, fetched, extracted, wrote, evicted, thrown) ==
    [m |-> m, pathname |-> rq.pathname, host |-> rq.host, pagePath |-> pagePath,
     response |-> response, lookedUp |-> lookedUp, fetched |-> fetched,
     extracted |-> extracted, wrote |-> wrote, evicted |-> evicted,
     thrown |-> thrown]

\* setTimeout and clearTimeout on the count of pending timeouts; clearing a
\* timeout that is no longer pending does nothing
setTimeout(pendingTimers) == pendingTimers + 1

\* a clearTimeout that does nothing at all
clearTimeout_never(pendingTimers, pending) == pendingTimers

clearTimeout(pendingTimers, pending) ==
    IF pending THEN pendingTimers - 1 ELSE pendingTimers

\* the process before any traffic: the middlewares are constructed when
\* their module is loaded
Init ==
    /\ cache = << >>
    /\ totalCacheSize = 0
    /\ now = 0
    /\ inflight = EmptyBag
    /\ last = NoRequest
    /\ timers = 0
    /\ middlewares = Constructed

(***************************************************************************)
(* middleware, up to its first await.  The result says whether the request *)
(* is answered at once or has to await the origin, and what became of the  *)
(* cache.                                                                  *)
(***************************************************************************)
\* a hit that returns the cached PageData as it was stored
overlayReceiver_stored(cachedData, receiverUsername) == cachedData

\* { ...cachedData, receiverUsername }
overlayReceiver(cachedData, receiverUsername) ==
    [cachedData EXCEPT !.receiverUsername = receiverUsername]

\* getPageData with a lookup whether or not caching is enabled
getPageDataStart_alwaysLookup(c, rq, pagePath, cch, total, t) ==
    LET looked == getCachedData(cch, total, pagePath, c.cacheDuration, t)
    IN  IF looked.hit
        THEN [await |-> FALSE, cache |-> looked.cache, total |-> looked.total,
              lookedUp |-> TRUE, thrown |-> noError,
              response |-> jsonResponse(
                  overlayReceiver(looked.data, c.receiverUsername),
                  c.additionalHeaders)]
        ELSE IF rq.host = NoHost
        THEN [await |-> FALSE, cache |-> looked.cache, total |-> looked.total,
              lookedUp |-> TRUE,
              thrown |-> autoApiError("FETCH_ERROR", 400),
              response |-> handleMiddlewareError(
                  getPageDataCatch(autoApiError("FETCH_ERROR", 400)))]
        ELSE [await |-> TRUE, cache |-> looked.cache, total |-> looked.total,
              lookedUp |-> TRUE, thrown |-> noError,
              response |-> nextResponse]

\* getPageData from its start to the call of fetch
getPageDataStart(c, rq, pagePath, cch, total, t) ==
    LET looked == IF c.enableCache
                  THEN getCachedData(cch, total, pagePath, c.cacheDuration, t)
                  ELSE [cache |-> cch, total |-> total,
                        hit |-> FALSE, data |-> Undefined]
    IN  IF looked.hit
        THEN [await |-> FALSE, cache |-> looked.cache, total |-> looked.total,
              lookedUp |-> TRUE, thrown |-> noError,
              response |-> jsonResponse(
                  overlayReceiver(looked.data, c.receiverUsername),
                  c.additionalHeaders)]
        ELSE IF rq.host = NoHost
        THEN [await |-> FALSE, cache |-> looked.cache, total |-> looked.total,
              lookedUp |-> c.enableCache,
              thrown |-> autoApiError("FETCH_ERROR", 400),
              response |-> handleMiddlewareError(
                  getPageDataCatch(autoApiError("FETCH_ERROR", 400)))]
        ELSE [await |-> TRUE, cache |-> looked.cache, total |-> looked.total,
              lookedUp |-> c.enableCache, thrown |-> noError,
              response |-> nextResponse]

\* middleware without its test of enabled
middlewareStart_enabledIgnored(c, rq, cch, total, t) ==
    LET pagePath == extractPagePath(rq.pathname, c.apiPrefix)
        untouched(response) ==
            [await |-> FALSE, cache |-> cch, total |-> total,
             lookedUp |-> FALSE, thrown |-> noError, response |-> response]
    IN  IF ~ startsWith(rq.pathname, c.apiPrefix) THEN untouched(nextResponse)
        ELSE IF ~ isValidPath(pagePath)
        THEN untouched(createErrorResponse(400, "INVALID_CONFIG"))
        ELSE IF isPathExcluded(pagePath, c.excludePaths) THEN untouched(nextResponse)
        ELSE getPageDataStart(c, rq, pagePath, cch, total, t)

\* middleware with the exclusion test before the validation of the path
middlewareStart_excludeFirst(c, rq, cch, total, t) ==
    LET pagePath == extractPagePath(rq.pathname, c.apiPrefix)
        untouched(response) ==
            [await |-> FALSE, cache |-> cch, total |-> total,
             lookedUp |-> FALSE, thrown |-> noError, response |-> response]
    IN  IF ~ c.enabled THEN untouched(nextResponse)
        ELSE IF ~ startsWith(rq.pathname, c.apiPrefix) THEN untouched(nextResponse)
        ELSE IF isPathExcluded(pagePath, c.excludePaths) THEN untouched(nextResponse)
        ELSE IF ~ isValidPath(pagePath)
        THEN untouched(createErrorResponse(400, "INVALID_CONFIG"))
        ELSE getPageDataStart(c, rq, pagePath, cch, total, t)

middlewareStart(c, rq, cch, total, t) ==
    LET pagePath == extractPagePath(rq.pathname, c.apiPrefix)
        untouched(response) ==
            [await |-> FALSE, cache |-> cch, total |-> total,
             lookedUp |-> FALSE, thrown |-> noError, response |-> response]
    IN  IF ~ c.enabled THEN untouched(nextResponse)
        ELSE IF ~ startsWith(rq.pathname, c.apiPrefix) THEN untouched(nextResponse)
        ELSE IF ~ isValidPath(pagePath)
        THEN untouched(createErrorResponse(400, "INVALID_CONFIG"))
        ELSE IF isPathExcluded(pagePath, c.excludePaths) THEN untouched(nextResponse)
        ELSE getPageDataStart(c, rq, pagePath, cch, total, t)

(***************************************************************************)
(* Actions                                                                 *)
(***************************************************************************)
\* a request awaiting the origin: phase "headers" is the await of fetch, with
\* the timeout timer pending and due in `remaining` ms; phase "body" is the
\* await of response.text(), after clearTimeout
awaiting(m, rq, pagePath, phase, timer, remaining, lookedUp) ==
    [m |-> m, pathname |-> rq.pathname, host |-> rq.host, pagePath |-> pagePath,
     phase |-> phase, timer |-> timer, remaining |-> remaining,
     lookedUp |-> lookedUp]

requestOf(r) == [pathname |-> r.pathname, host |-> r.host]

\* a request arrives at middleware m and runs to its response or to the fetch
Request(m, rq) ==
    /\ m \in DOMAIN middlewares
    /\ middlewares[m].returned
    /\ LET c == middlewares[m].config
           pagePath == extractPagePath(rq.pathname, c.apiPrefix)
           res == middlewareStart(c, rq, cache, totalCacheSize, now)
       IN  /\ cache' = res.cache
           /\ totalCacheSize' = res.total
           /\ now' = now
           /\ middlewares' = middlewares
           /\ IF res.await
              THEN /\ BagCardinality(inflight) < MaxInFlight
                   /\ inflight' = inflight (+) SetToBag({awaiting(m, rq, pagePath,
                                      "headers", TRUE, c.requestTimeout, res.lookedUp)})
                   /\ timers' = setTimeout(timers)
                   /\ last' = NoRequest
              ELSE /\ inflight' = inflight
                   /\ timers' = timers
                   /\ last' = completed(m, rq, pagePath, res.response,
                                        res.lookedUp, FALSE, FALSE, FALSE, 0,
                                        res.thrown)

\* a catch block that calls fetchPageContent once more instead of throwing
Fail_retry(r, error, pending) ==
    /\ inflight' = (inflight (-) SetToBag({r})) (+)
           SetToBag({awaiting(r.m, requestOf(r), r.pagePath, "headers", TRUE,
                              middlewares[r.m].config.requestTimeout, r.lookedUp)})
    /\ timers' = setTimeout(clearTimeout(timers, pending))
    /\ last' = NoRequest
    /\ UNCHANGED <<cache, totalCacheSize, now, middlewares>>

\* an error thrown inside fetchPageContent reaches its catch block
\* (clearTimeout of a timeout of which `pending` says whether it still is,
\* then the conversion of an AbortError), and then the catch blocks of
\* getPageData and middleware
Fail(r, error, pending) ==
    /\ inflight' = inflight (-) SetToBag({r})
    /\ timers' = clearTimeout(timers, pending)
    /\ last' = completed(r.m, requestOf(r), r.pagePath,
                         handleMiddlewareError(
                             getPageDataCatch(fetchPageContentCatch(error))),
                         r.lookedUp, TRUE, FALSE, FALSE, 0, error)
    /\ UNCHANGED <<cache, totalCacheSize, now, middlewares>>

\* the origin's response headers arrive: clearTimeout, then the ok check,
\* whose throw is caught by the catch block of fetchPageContent
FetchResponds(r) ==
    /\ r.phase = "headers"
    /\ LET status == originStatus(constructPageUrl(r.host, r.pagePath))
       IN  IF status \in 200..299
           THEN /\ inflight' = (inflight (-) SetToBag({r})) (+)
                        SetToBag({awaiting(r.m, requestOf(r), r.pagePath,
                                           "body", FALSE, 0, r.lookedUp)})
                /\ timers' = clearTimeout(timers, r.timer)
                /\ last' = NoRequest
                /\ UNCHANGED <<cache, totalCacheSize, now, middlewares>>
           ELSE /\ inflight' = inflight (-) SetToBag({r})
                /\ timers' = clearTimeout(clearTimeout(timers, r.timer), FALSE)
                /\ last' = completed(r.m, requestOf(r), r.pagePath,
                        handleMiddlewareError(getPageDataCatch(
                            fetchPageContentCatch(autoApiError("FETCH_ERROR", status)))),
                        r.lookedUp, TRUE, FALSE, FALSE, 0,
                        autoApiError("FETCH_ERROR", status))
                /\ UNCHANGED <<cache, totalCacheSize, now, middlewares>>

\* fetch rejects with a transport error
FetchFails(r) ==
    /\ r.phase = "headers"
    /\ Fail(r, otherError, r.timer)

\* the timeout timer fires and is no longer pending: controller.abort(),
\* fetch rejects with AbortError
TimerFires(r) ==
    /\ r.timer
    /\ r.remaining = 0
    /\ inflight' = inflight (-) SetToBag({r})
    /\ timers' = clearTimeout(timers - 1, FALSE)
    /\ last' = completed(r.m, requestOf(r), r.pagePath,
                         handleMiddlewareError(
                             getPageDataCatch(fetchPageContentCatch(abortError))),
                         r.lookedUp, TRUE, FALSE, FALSE, 0, abortError)
    /\ UNCHANGED <<cache, totalCacheSize, now, middlewares>>

\* response.text() resolves with the markup html: extract, cache when
\* allowed, respond
BodyServes(r, html) ==
    LET c == middlewares[r.m].config
        extractedData == extractPageData(html, r.pagePath, c.receiverUsername, now)
        store == c.enableCache /\ shouldCacheData(extractedData, c.maxCacheSize)
        put == cachePageData(cache, totalCacheSize, r.pagePath, extractedData,
                             c.maxCacheSize, now)
    IN  /\ r.phase = "body"
        /\ cache' = IF store THEN put.cache ELSE cache
        /\ totalCacheSize' = IF store THEN put.total ELSE totalCacheSize
        /\ inflight' = inflight (-) SetToBag({r})
        /\ last' = completed(r.m, requestOf(r), r.pagePath,
                             jsonResponse(extractedData, c.additionalHeaders),
                             r.lookedUp, TRUE, TRUE, store,
                             IF store THEN put.evicted ELSE 0, noError)
        /\ now' = now
        /\ UNCHANGED <<timers, middlewares>>

\* response.text() resolves with the page the origin has at the URL
BodyDone(r) ==
    /\ r.phase = "body"
    /\ BodyServes(r, originMarkup(constructPageUrl(r.host, r.pagePath)))

\* response.text() rejects with a transport error
BodyFails(r) ==
    /\ r.phase = "body"
    /\ Fail(r, otherError, r.timer)

\* response.text() resolves and cheerio throws on the markup: the catch
\* block of extractPageData, then those of getPageData and middleware
ParseFails(r) ==
    /\ r.phase = "body"
    /\ inflight' = inflight (-) SetToBag({r})
    /\ last' = completed(r.m, requestOf(r), r.pagePath,
                         handleMiddlewareError(
                             getPageDataCatch(extractPageDataCatch(otherError))),
                         r.lookedUp, TRUE, FALSE, FALSE, 0,
                         extractPageDataCatch(otherError))
    /\ UNCHANGED <<cache, totalCacheSize, now, timers, middlewares>>

\* the maintenance sweep, called by an external scheduler
Sweep(cacheDuration) ==
    LET swept == clearExpiredCache(cache, totalCacheSize, cacheDuration, now)
    IN  /\ cache' = swept.cache
        /\ totalCacheSize' = swept.total
        /\ last' = NoRequest
        /\ UNCHANGED <<now, inflight, timers, middlewares>>

\* the outcome of a call of clearCache, as the latest step
cleared(argument, threw, removedCount) ==
    [response |-> [kind |-> "none"], argument |-> argument, threw |-> threw,
     removedCount |-> removedCount]

\* clearCache of the package entry point: the default of its argument, its
\* check of it, then clearExpiredCache, whose count it returns
ClearCache(argument) ==
    LET cacheDuration == IF argument.typeof = "undefined"
                         THEN num(DEFAULT_CACHE_DURATION) ELSE argument
        invalid == \/ ~ (cacheDuration.typeof = "number" /\ cacheDuration.isInteger)
                   \/ cacheDuration.value < 1
        swept == clearExpiredCache(cache, totalCacheSize, cacheDuration.value, now)
    IN  /\ cache' = IF invalid THEN cache ELSE swept.cache
        /\ totalCacheSize' = IF invalid THEN totalCacheSize ELSE swept.total
        /\ last' = cleared(argument, invalid,
                           IF invalid THEN 0 ELSE swept.removedCount)
        /\ UNCHANGED <<now, inflight, timers, middlewares>>

\* withAutoApiMiddleware is called with a raw configuration and its result
\* is bound to a name
Construct(m, config) ==
    /\ m \notin DOMAIN middlewares
    /\ middlewares' = middlewares @@ (m :> withAutoApiMiddleware(config))
    /\ last' = NoRequest
    /\ UNCHANGED <<cache, totalCacheSize, now, inflight, timers>>

\* a timer after d more milliseconds
elapse(r, d) ==
    IF r.timer
    THEN [r EXCEPT !.remaining = IF r.remaining > d THEN r.remaining - d ELSE 0]
    ELSE r

\* the clock advances to a later instant
Tick(t) ==
    /\ t > now
    /\ now' = t
    /\ inflight' = BagOfAll(LAMBDA r : elapse(r, t - now), inflight)
    /\ last' = NoRequest
    /\ UNCHANGED <<cache, totalCacheSize, timers, middlewares>>

\* the steps of the origin, the timers, the scheduler and the clock
Environment ==
    \/ \E r \in BagToSet(inflight) : FetchResponds(r)
    \/ \E r \in BagToSet(inflight) : FetchFails(r)
    \/ \E r \in BagToSet(inflight) : TimerFires(r)
    \/ \E r \in BagToSet(inflight) : BodyDone(r)
    \/ \E r \in BagToSet(inflight) : BodyFails(r)
    \/ \E r \in BagToSet(inflight) : ParseFails(r)
    \/ \E d \in SweepDurations : Sweep(d)
    \/ \E t \in Instants : Tick(t)

Next ==
    \/ \E tr \in Traffic : Request(tr[1], tr[2])
    \/ Environment

Spec == Init /\ [][Next]_vars

\* the same machine under the traffic of every shape of path
PathNext ==
    \/ \E tr \in PathTraffic : Request(tr[1], tr[2])
    \/ Environment

PathSpec == Init /\ [][PathNext]_vars

\* the same machine under the traffic of two middlewares and of the failures
ErrorNext ==
    \/ \E tr \in ErrorTraffic : Request(tr[1], tr[2])
    \/ Environment

ErrorSpec == Init /\ [][ErrorNext]_vars

\* the same machine with the cache swept through clearCache
SweepNext ==
    \/ \E tr \in SweepTraffic : Request(tr[1], tr[2])
    \/ \E argument \in ClearCacheArguments : ClearCache(argument)
    \/ Environment

SweepSpec == Init /\ [][SweepNext]_vars

\* the process before its middleware is constructed
ConfigInit ==
    /\ cache = << >>
    /\ totalCacheSize = 0
    /\ now = 0
    /\ inflight = EmptyBag
    /\ last = NoRequest
    /\ timers = 0
    /\ middlewares = [m \in {} |-> m]

\* the construction of a middleware from any raw configuration, and the
\* machine once it is constructed
ConfigNext ==
    \/ \E config \in ConfigInputs : Construct("M", config)
    \/ \E tr \in ConfigTraffic : Request(tr[1], tr[2])
    \/ Environment

ConfigSpec == ConfigInit /\ [][ConfigNext]_vars

\* the same machine with a middleware without a cache beside one with a cache
NoCacheNext ==
    \/ \E tr \in NoCacheTraffic : Request(tr[1], tr[2])
    \/ Environment

NoCacheSpec == Init /\ [][NoCacheNext]_vars

\* the same machine with one middleware of a wider limit
OrderNext ==
    \/ \E tr \in OrderTraffic : Request(tr[1], tr[2])
    \/ Environment

OrderSpec == Init /\ [][OrderNext]_vars

\* the same machine with one middleware of a narrower limit
LimitNext ==
    \/ \E tr \in LimitTraffic : Request(tr[1], tr[2])
    \/ Environment

LimitSpec == Init /\ [][LimitNext]_vars

\* the same machine with one middleware reached under two host names
HostNext ==
    \/ \E tr \in HostTraffic : Request(tr[1], tr[2])
    \/ Environment

HostSpec == Init /\ [][HostNext]_vars

\* the same machine under the traffic on the edge of the prefix
PrefixNext ==
    \/ \E tr \in PrefixTraffic : Request(tr[1], tr[2])
    \/ Environment

PrefixSpec == Init /\ [][PrefixNext]_vars

\* the pipeline of one middleware when the origin answers with any document
\* and the client sends each request after the answer to the one before
DocNext ==
    \/ \E tr \in DocTraffic : inflight = EmptyBag /\ Request(tr[1], tr[2])
    \/ \E r \in BagToSet(inflight) : FetchResponds(r)
    \/ \E r \in BagToSet(inflight), html \in Documents : BodyServes(r, html)

DocSpec == Init /\ [][DocNext]_vars

\* every pending timer becomes due within the horizon of the clock
WithinHorizon ==
    \A r \in BagToSet(inflight) : r.timer => now + r.remaining <= MaxNow

\* The scheduling of the runtime: the clock advances and a due timer fires.
\* Nothing obliges the origin to answer.
FairNext == Next /\ WithinHorizon'

FairSpec ==
    /\ Init
    /\ [][FairNext]_vars
    /\ WF_vars(\E t \in Instants : Tick(t))
    /\ WF_vars(\E r \in BagToSet(inflight) : TimerFires(r))

(***************************************************************************)
(* Vocabulary of the properties                                            *)
(***************************************************************************)
\* the latest step completed a request
Done(l) == l.response.kind # "none"

\* the content path of a request at a middleware is one the pipeline serves:
\* middleware enabled, path under the prefix, valid and not excluded
Served(c, rq) ==
    /\ c.enabled
    /\ startsWith(rq.pathname, c.apiPrefix)
    /\ isValidPath(extractPagePath(rq.pathname, c.apiPrefix))
    /\ ~ isPathExcluded(extractPagePath(rq.pathname, c.apiPrefix), c.excludePaths)

\* the requests that this step sent to the origin: they arrived, were not
\* answered at once and now await the response headers
Started ==
    {r \in BagToSet(inflight') :
        /\ now' = now
        /\ r.phase = "headers"
        /\ CopiesIn(r, inflight') > CopiesIn(r, inflight)}

\* this step answered a request on its arrival, without a fetch
Answered == Done(last') /\ ~ last'.fetched

(***************************************************************************)
(* C1: in every reachable state the running total that the statistics      *)
(* report equals the sum of the sizes of the entries in the cache.          *)
(***************************************************************************)
C1_TotalIsSumOfEntries ==
    getCacheStats(cache, totalCacheSize).totalSize = sumSizes(cache)

(***************************************************************************)
(* C2: a lookup of a present entry inserted at t0, made at now with TTL T,  *)
(* returns the stored data if and only if now - t0 < T * 1000; otherwise    *)
(* (the boundary now - t0 = T * 1000 included) it is a miss, the entry is   *)
(* deleted and the entry count no longer counts it.                         *)
(***************************************************************************)
C2_Step ==
    /\ \A r \in Started :
          LET c == Middleware[r.m]
          IN  (c.enableCache /\ cacheHas(cache, r.pagePath))
              => /\ ~ (now - cacheGet(cache, r.pagePath).timestamp
                         < c.cacheDuration * 1000)
                 /\ ~ cacheHas(cache', r.pagePath)
                 /\ getCacheStats(cache', totalCacheSize').entries
                      = getCacheStats(cache, totalCacheSize).entries - 1
    /\ (/\ Answered
        /\ Served(Middleware[last'.m], requestOf(last'))
        /\ Middleware[last'.m].enableCache
        /\ cacheHas(cache, last'.pagePath))
       => LET c == Middleware[last'.m]
              entry == cacheGet(cache, last'.pagePath)
          IN  IF now - entry.timestamp < c.cacheDuration * 1000
              THEN /\ last'.response.kind = "json"
                   /\ [last'.response.body EXCEPT !.receiverUsername =
                           entry.data.receiverUsername] = entry.data
                   /\ cache' = cache
              ELSE /\ last'.response.kind # "json"
                   /\ ~ cacheHas(cache', last'.pagePath)
                   /\ getCacheStats(cache', totalCacheSize').entries
                        = getCacheStats(cache, totalCacheSize).entries - 1

C2_HitIffStrictlyYoungerThanTtl == [][C2_Step]_vars

(***************************************************************************)
(* C3: eviction follows the insertion order of the cache, oldest first: a   *)
(* write never evicts an entry while an entry before it in that order       *)
(* stays, the entries that stay keep their order, and a cache hit changes   *)
(* neither the entries nor their order.                                     *)
(***************************************************************************)
\* the entries of cch other than the one under key, in their order
Others(cch, key) == SelectSeq(cch, LAMBDA e : e.key # key)

C3_Step ==
    /\ (Done(last') /\ last'.wrote) =>
          LET old == Others(cache, last'.pagePath)
              new == Others(cache', last'.pagePath)
          IN  /\ \E k \in 0..Len(old) : new = SubSeq(old, k + 1, Len(old))
              /\ cacheHas(cache', last'.pagePath)
              /\ last'.evicted > 0 => ~ cacheHas(cache', cache[1].key)
                                      \/ cache[1].key = last'.pagePath
    /\ (Done(last') /\ last'.response.kind = "json" /\ ~ last'.fetched) =>
          cache' = cache

C3_EvictionIsFifo == [][C3_Step]_vars

\* a write evicted the oldest entry and kept a younger one
C3_Witness ==
    /\ Done(last)
    /\ last.wrote
    /\ last.evicted = 1
    /\ Len(cache) = 2
    /\ cache[2].key = last.pagePath

(***************************************************************************)
(* C4: the receiverUsername of every returned PageData is that of the       *)
(* configuration of the middleware that handled the request, on a hit as   *)
(* on a miss.                                                               *)
(***************************************************************************)
C4_ReceiverIsTheRequests ==
    (Done(last) /\ last.response.kind = "json") =>
        last.response.body.receiverUsername = Middleware[last.m].receiverUsername

\* a hit on an entry that was cached with another receiver
C4_Witness ==
    /\ Done(last)
    /\ last.response.kind = "json"
    /\ ~ last.fetched
    /\ cacheHas(cache, last.pagePath)
    /\ cacheGet(cache, last.pagePath).data.receiverUsername = <<"A">>
    /\ last.response.body.receiverUsername = <<"B">>

(***************************************************************************)
(* C5: a pattern ending in "/*" matches a content path exactly when the     *)
(* path starts with the pattern minus its trailing "*"; any other pattern   *)
(* matches on equality only.  So a request under the prefix with a valid    *)
(* content path is passed through if and only if some pattern matches in    *)
(* that sense.                                                              *)
(***************************************************************************)
C5_Matches(path, pattern) ==
    IF endsWith(pattern, <<"/", "*">>)
    THEN startsWith(path, sliceEnd(pattern, 1))
    ELSE path = pattern

C5_Excluded(path, excludePaths) ==
    \E i \in 1..Len(excludePaths) : C5_Matches(path, excludePaths[i])

C5_ExcludedIffPatternMatches ==
    LET c == Middleware[last.m]
    IN  (/\ Done(last)
         /\ c.enabled
         /\ startsWith(last.pathname, c.apiPrefix)
         /\ isValidPath(last.pagePath))
        => ((last.response.kind = "next") <=> C5_Excluded(last.pagePath, c.excludePaths))

(***************************************************************************)
(* C6: a request whose content path contains one of < > : " | ? * or is     *)
(* longer than 2000 characters is answered 400 INVALID_CONFIG, without any  *)
(* cache lookup, cache write or origin fetch.                               *)
(***************************************************************************)
C6_Invalid(path) ==
    \/ \E i \in 1..Len(path) : path[i] \in {"<", ">", ":", "\"", "|", "?", "*"}
    \/ Len(path) > 2000

C6_Step ==
    /\ (/\ Done(last')
        /\ Middleware[last'.m].enabled
        /\ startsWith(last'.pathname, Middleware[last'.m].apiPrefix)
        /\ C6_Invalid(last'.pagePath))
       => /\ last'.response = [kind |-> "error", status |-> 400,
                               type |-> "INVALID_CONFIG"]
          /\ ~ last'.lookedUp /\ ~ last'.fetched /\ ~ last'.wrote
          /\ UNCHANGED <<cache, totalCacheSize, inflight>>
    /\ \A r \in BagToSet(inflight') : ~ C6_Invalid(r.pagePath)

C6_InvalidPathRejected == [][C6_Step]_vars

\* a path with a forbidden character was rejected while the cache held entries
C6_Witness ==
    /\ Done(last)
    /\ \E i \in 1..Len(last.pagePath) : last.pagePath[i] = ":"
    /\ last.response.kind = "error"
    /\ last.response.status = 400
    /\ cache # << >>

(***************************************************************************)
(* C7: a request that is not under the prefix, or whose valid content path  *)
(* matches excludePaths, is passed through and changes nothing: the cache   *)
(* and the running total stay as they are, expired entries included, and   *)
(* no fetch is issued.                                                      *)
(***************************************************************************)
C7_PassThrough(l) ==
    LET c == Middleware[l.m]
    IN  \/ ~ startsWith(l.pathname, c.apiPrefix)
        \/ /\ startsWith(l.pathname, c.apiPrefix)
           /\ ~ C6_Invalid(l.pagePath)
           /\ C5_Excluded(l.pagePath, c.excludePaths)

C7_Step ==
    /\ (Done(last') /\ C7_PassThrough(last'))
       => /\ last'.response.kind = "next"
          /\ ~ last'.lookedUp /\ ~ last'.fetched /\ ~ last'.wrote
          /\ UNCHANGED <<cache, totalCacheSize, inflight>>
    /\ \A r \in BagToSet(inflight') : ~ C7_PassThrough(r)

C7_PassThroughHasNoEffect == [][C7_Step]_vars

\* an excluded request passed through although the cache held an expired
\* entry under its content path
C7_Witness ==
    /\ Done(last)
    /\ startsWith(last.pathname, Middleware[last.m].apiPrefix)
    /\ C5_Excluded(last.pagePath, Middleware[last.m].excludePaths)
    /\ last.response.kind = "next"
    /\ cacheHas(cache, last.pagePath)
    /\ now - cacheGet(cache, last.pagePath).timestamp
         > Middleware[last.m].cacheDuration * 1000

(***************************************************************************)
(* C8: with caching enabled and an unexpired entry for the content path in  *)
(* the cache, the request returns that entry's PageData without a fetch     *)
(* and without extraction.                                                  *)
(***************************************************************************)
C8_Fresh(m, pagePath) ==
    /\ Middleware[m].enableCache
    /\ cacheHas(cache, pagePath)
    /\ now - cacheGet(cache, pagePath).timestamp < Middleware[m].cacheDuration * 1000

C8_Step ==
    /\ \A r \in Started : ~ C8_Fresh(r.m, r.pagePath)
    /\ (/\ Answered
        /\ Served(Middleware[last'.m], requestOf(last'))
        /\ C8_Fresh(last'.m, last'.pagePath))
       => /\ last'.response.kind = "json"
          /\ last'.response.status = 200
          /\ [last'.response.body EXCEPT !.receiverUsername =
                  cacheGet(cache, last'.pagePath).data.receiverUsername]
               = cacheGet(cache, last'.pagePath).data
          /\ ~ last'.extracted
          /\ inflight' = inflight

C8_HitShortCircuits == [][C8_Step]_vars

\* a request was answered from an entry cached at an earlier instant
C8_Witness ==
    /\ Done(last)
    /\ last.response.kind = "json"
    /\ ~ last.fetched
    /\ last.lookedUp
    /\ last.response.body.extractedAt < now
    /\ C8_Fresh(last.m, last.pagePath)

(***************************************************************************)
(* C9: a fresh PageData whose computed size exceeds the maxCacheSize of    *)
(* its middleware is returned with status 200 and not written: nothing is   *)
(* evicted or inserted.  So every entry of the cache is within the limit   *)
(* of the middleware that wrote it.                                         *)
(***************************************************************************)
C9_Step ==
    /\ (/\ Done(last')
        /\ last'.extracted
        /\ Middleware[last'.m].enableCache
        /\ dataSizeOf(last'.response.body) > Middleware[last'.m].maxCacheSize)
       => /\ last'.response.kind = "json"
          /\ last'.response.status = 200
          /\ ~ last'.wrote
          /\ UNCHANGED <<cache, totalCacheSize>>
    /\ \A i \in 1..Len(cache') :
          \E m \in DOMAIN Middleware :
             /\ Middleware[m].receiverUsername = cache'[i].data.receiverUsername
             /\ cache'[i].size <= Middleware[m].maxCacheSize

C9_OversizedIsNotCached == [][C9_Step]_vars

\* an oversized page was returned while the cache held entries
C9_Witness ==
    /\ Done(last)
    /\ last.extracted
    /\ last.response.kind = "json"
    /\ dataSizeOf(last.response.body) > Middleware[last.m].maxCacheSize
    /\ cache # << >>

(***************************************************************************)
(* C10: every request that reaches the fetcher eventually receives a        *)
(* response: while requests await the origin, sooner or later one of them   *)
(* is answered, whether the origin stalls before its headers or in the      *)
(* middle of its body.                                                      *)
(***************************************************************************)
C10_AwaitingIsAnswered ==
    (inflight # EmptyBag) ~> (Done(last) /\ last.fetched)

(***************************************************************************)
(* C11: a call of the fetcher whose timeout fires while the origin has not  *)
(* responded fails with TIMEOUT_ERROR and status 408, and a 408 is given    *)
(* only when the timeout was due.  Every exit of the call clears its        *)
(* timeout: the timeouts pending are those of the calls still awaiting the  *)
(* response headers, so none of a finished call remains, however many       *)
(* calls were made.                                                         *)
(***************************************************************************)
\* the number of calls of the fetcher that still await the response headers
C11_AwaitingHeaders(b) ==
    BagCardinality([r \in {x \in BagToSet(b) : x.phase = "headers"} |-> b[r]])

C11_Step ==
    /\ (Done(last') /\ ~ last'.thrown.typed /\ last'.thrown.type = "AbortError")
       => last'.response = [kind |-> "error", status |-> 408,
                            type |-> "TIMEOUT_ERROR"]
    /\ (Done(last') /\ last'.response.kind = "error" /\ last'.response.status = 408)
       => \E r \in BagToSet(inflight) :
             /\ r.phase = "headers"
             /\ r.remaining = 0
             /\ requestOf(r) = requestOf(last')
             /\ CopiesIn(r, inflight') = CopiesIn(r, inflight) - 1
    /\ timers' = C11_AwaitingHeaders(inflight')

C11_TimeoutIs408AndTimersAreCleared == [][C11_Step]_vars

\* a call timed out after another had completed, and no timeout is pending
C11_Witness ==
    /\ Done(last)
    /\ last.response.kind = "error"
    /\ last.response.status = 408
    /\ cache # << >>
    /\ inflight = EmptyBag
    /\ timers = 0

(***************************************************************************)
(* C12: a typed error raised while a request is handled (the fetcher's      *)
(* TIMEOUT_ERROR for an aborted fetch included) becomes an error response   *)
(* with the error's type and its status code, or 500 when it carries none;  *)
(* an untyped failure becomes 500 FETCH_ERROR.  The type of every error     *)
(* response is one of the five kinds.                                       *)
(***************************************************************************)
C12_Kinds ==
    {"INVALID_CONFIG", "FETCH_ERROR", "PARSE_ERROR", "CACHE_ERROR", "TIMEOUT_ERROR"}

C12_ErrorsAreMapped ==
    Done(last) =>
       /\ last.response.kind = "error" => last.response.type \in C12_Kinds
       /\ last.thrown.type # "none" =>
             LET raised == IF ~ last.thrown.typed /\ last.thrown.type = "AbortError"
                           THEN [typed |-> TRUE, type |-> "TIMEOUT_ERROR",
                                 statusCode |-> 408]
                           ELSE last.thrown
             IN  IF raised.typed
                 THEN last.response =
                         [kind |-> "error",
                          status |-> IF raised.statusCode # 0
                                     THEN raised.statusCode ELSE 500,
                          type |-> raised.type]
                 ELSE last.response =
                         [kind |-> "error", status |-> 500, type |-> "FETCH_ERROR"]

\* a typed error without a status code was answered with 500 and its type
C12_Witness ==
    /\ Done(last)
    /\ last.thrown.typed
    /\ last.thrown.statusCode = 0
    /\ last.response.kind = "error"
    /\ last.response.status = 500
    /\ last.response.type = "PARSE_ERROR"

(***************************************************************************)
(* C13: a request whose origin response is not 2xx fails with FETCH_ERROR   *)
(* carrying the origin's status code, the error response has that status   *)
(* code, and the request writes nothing to the cache; such a request never  *)
(* reads a body and is never answered with PageData.                        *)
(***************************************************************************)
C13_OriginStatus(l) == originStatus([host |-> l.host, path |-> l.pagePath])

C13_Step ==
    /\ (Done(last') /\ last'.fetched /\ C13_OriginStatus(last') \notin 200..299)
       => /\ last'.response.kind = "error"
          /\ ~ last'.wrote
          /\ UNCHANGED <<cache, totalCacheSize>>
          /\ (last'.thrown.typed /\ last'.thrown.type = "FETCH_ERROR")
             => /\ last'.thrown.statusCode = C13_OriginStatus(last')
                /\ last'.response.type = "FETCH_ERROR"
                /\ last'.response.status = C13_OriginStatus(last')
          /\ ~ last'.thrown.typed => last'.thrown.type \in {"AbortError", "TypeError"}
    /\ \A r \in BagToSet(inflight') :
          C13_OriginStatus(r) \notin 200..299 => r.phase = "headers"

C13_NonOkIsFetchErrorWithStatus == [][C13_Step]_vars

\* the origin answered 404 while the cache held an entry
C13_Witness ==
    /\ Done(last)
    /\ last.fetched
    /\ last.response.kind = "error"
    /\ last.response.type = "FETCH_ERROR"
    /\ last.response.status = 404
    /\ cache # << >>

(***************************************************************************)
(* C14: every request is answered with exactly one of a pass-through, a     *)
(* 200 JSON PageData of its content path, or an error response with one of  *)
(* the five kinds and an error status; whatever fails, a request that       *)
(* leaves the pipeline leaves it with such a response, and nothing is       *)
(* thrown on to the framework.                                              *)
(***************************************************************************)
C14_IsResponse(l) ==
    \/ l.response = [kind |-> "next"]
    \/ /\ l.response.kind = "json"
       /\ l.response.status = 200
       /\ l.response.body.path = l.pagePath
       /\ l.response.body.statusCode = 200
       /\ l.thrown.type = "none"
    \/ /\ l.response.kind = "error"
       /\ l.response.status \in 400..599
       /\ l.response.type \in C12_Kinds

C14_Step ==
    /\ Done(last') => C14_IsResponse(last')
    /\ BagCardinality(inflight') < BagCardinality(inflight)
       => /\ BagCardinality(inflight') = BagCardinality(inflight) - 1
          /\ Done(last')
          /\ last'.fetched
          /\ \E r \in BagToSet(inflight) :
                /\ requestOf(r) = requestOf(last') /\ r.m = last'.m
                /\ CopiesIn(r, inflight') = CopiesIn(r, inflight) - 1

C14_OneStructuredResponse == [][C14_Step]_vars

\* a transport failure in the middle of the body was answered with an error
\* response
C14_Witness ==
    /\ Done(last)
    /\ last.fetched
    /\ ~ last.thrown.typed
    /\ last.thrown.type = "TypeError"
    /\ last.response.kind = "error"
    /\ inflight # EmptyBag

(***************************************************************************)
(* C15: a request that ends in an error inserts no entry and removes none   *)
(* that is unexpired under its own cacheDuration, changes the running       *)
(* total by exactly the sizes of what it removed, and leaves the other      *)
(* requests in flight as they were.                                         *)
(***************************************************************************)
C15_Step ==
    (Done(last') /\ last'.response.kind = "error") =>
        LET c == Middleware[last'.m]
        IN  /\ \A i \in 1..Len(cache') :
                  \E j \in 1..Len(cache) : cache'[i] = cache[j]
            /\ \A j \in 1..Len(cache) :
                  (\A i \in 1..Len(cache') : cache'[i].key # cache[j].key)
                  => /\ now - cache[j].timestamp >= c.cacheDuration * 1000
                     /\ cache[j].key = last'.pagePath
            /\ totalCacheSize - totalCacheSize' = sumSizes(cache) - sumSizes(cache')
            /\ \A r \in BagToSet(inflight') : CopiesIn(r, inflight') <= CopiesIn(r, inflight)
            /\ BagCardinality(inflight') >= BagCardinality(inflight) - 1
            /\ now' = now

C15_ErrorsLeaveTheCacheAndOthersAlone == [][C15_Step]_vars

\* a fetch failed while the cache held an entry and another request was in
\* flight
C15_Witness ==
    /\ Done(last)
    /\ last.fetched
    /\ last.response.kind = "error"
    /\ cache # << >>
    /\ inflight # EmptyBag

(***************************************************************************)
(* C16: the compound sequences on the cache (check expiry then delete,      *)
(* evict then insert then update the total, the sweep) each run as one      *)
(* step.  So between steps the map and the total are never seen half        *)
(* updated: a step that writes subtracts the sizes of the entries it        *)
(* evicted and adds the size of the entry it wrote, any other step          *)
(* subtracts exactly the sizes of the entries it removed and adds none;     *)
(* and a key is in the map at most once, so none is evicted twice.          *)
(***************************************************************************)
C16_Step ==
    /\ \A i, j \in 1..Len(cache') : cache'[i].key = cache'[j].key => i = j
    /\ IF Done(last') /\ last'.wrote
       THEN LET k == last'.evicted
                written == cacheGet(cache', last'.pagePath)
            IN  /\ k <= Len(cache)
                /\ totalCacheSize' = totalCacheSize - sumSizes(SubSeq(cache, 1, k))
                                        + written.size
                /\ Others(cache', last'.pagePath)
                     = Others(SubSeq(cache, k + 1, Len(cache)), last'.pagePath)
       ELSE /\ cache' = SelectSeq(cache, LAMBDA e : cacheHas(cache', e.key))
            /\ totalCacheSize - totalCacheSize'
                 = sumSizes(SelectSeq(cache, LAMBDA e : ~ cacheHas(cache', e.key)))

C16_CacheMutationsAreAtomic == [][C16_Step]_vars

\* a write evicted an entry while another request was in flight
C16_Witness ==
    /\ Done(last)
    /\ last.wrote
    /\ last.evicted >= 1
    /\ inflight # EmptyBag
    /\ Len(cache) >= 1

(***************************************************************************)
(* C17: a raw configuration that fails any of the four checks (apiPrefix a  *)
(* string starting with "/", cacheDuration an integer in [60, 86400],       *)
(* excludePaths an array of strings, additionalHeaders a non-null object;   *)
(* each only if given) makes the construction fail with INVALID_CONFIG and  *)
(* one message per failed check, and no middleware function is returned.    *)
(* So every request is handled by a middleware whose construction           *)
(* returned, with a cacheDuration in [60, 86400] and an apiPrefix starting  *)
(* with "/".                                                                *)
(***************************************************************************)
C17_Violations(raw) ==
    {f \in DOMAIN raw :
        \/ f = "apiPrefix"
           /\ ~ (raw[f].typeof = "string" /\ raw[f].value # << >>
                                          /\ raw[f].value[1] = "/")
        \/ f = "cacheDuration"
           /\ ~ (raw[f].typeof = "number" /\ raw[f].isInteger
                                          /\ raw[f].value \in 60..86400)
        \/ f = "excludePaths"
           /\ ~ (raw[f].isArray
                 /\ \A i \in 1..Len(raw[f].value) : raw[f].value[i].typeof = "string")
        \/ f = "additionalHeaders"
           /\ ~ (raw[f].typeof = "object" /\ ~ raw[f].isNull)}

C17_Message ==
    [apiPrefix         |-> "apiPrefix must be a string starting with \"/\"",
     cacheDuration     |-> "cacheDuration must be an integer between 60 and 86400",
     excludePaths      |-> "excludePaths must be an array of strings",
     additionalHeaders |-> "additionalHeaders must be an object"]

C17_InvalidConfigNeverServes ==
    /\ \A m \in DOMAIN middlewares :
          LET outcome == middlewares[m]
              violations == C17_Violations(outcome.raw)
          IN  /\ violations # {} =>
                    /\ ~ outcome.returned
                    /\ outcome.error.type = "INVALID_CONFIG"
                    /\ Len(outcome.error.errors) = Cardinality(violations)
                    /\ \A f \in violations :
                          \E i \in 1..Len(outcome.error.errors) :
                             outcome.error.errors[i] = C17_Message[f]
              /\ outcome.returned =>
                    /\ violations = {}
                    /\ outcome.config.cacheDuration \in 60..86400
                    /\ outcome.config.apiPrefix # << >>
                    /\ outcome.config.apiPrefix[1] = "/"
    /\ \A r \in BagToSet(inflight) :
          r.m \in DOMAIN middlewares /\ middlewares[r.m].returned
    /\ Done(last) => last.m \in DOMAIN middlewares /\ middlewares[last.m].returned

\* a construction failed all four checks at once
C17_Witness ==
    \E m \in DOMAIN middlewares :
       /\ ~ middlewares[m].returned
       /\ Cardinality(C17_Violations(middlewares[m].raw)) = 4
       /\ Len(middlewares[m].error.errors) = 4

(***************************************************************************)
(* C18: the configuration of a successful validation has every option      *)
(* populated: a given value is kept, an omitted one has its default         *)
(* (enabled true, apiPrefix "/api", excludePaths [], additionalHeaders {},  *)
(* enableCache false, cacheDuration 3600, maxCacheSize 1048576,             *)
(* requestTimeout 5000).                                                    *)
(***************************************************************************)
C18_Defaults ==
    [enabled           |-> TRUE,
     apiPrefix         |-> <<"/", "a", "p", "i">>,
     excludePaths      |-> << >>,
     additionalHeaders |-> {},
     enableCache       |-> FALSE,
     cacheDuration     |-> 3600,
     maxCacheSize      |-> 1048576,
     requestTimeout    |-> 5000]

C18_Given(v) ==
    IF v.isArray THEN [i \in 1..Len(v.value) |-> v.value[i].value] ELSE v.value

C19_Step ==
    /\ (Done(last') /\ ~ Middleware[last'.m].enabled)
       => /\ last'.response = [kind |-> "next"]
          /\ ~ last'.lookedUp /\ ~ last'.fetched /\ ~ last'.wrote
          /\ UNCHANGED <<cache, totalCacheSize, inflight, timers>>
    /\ \A r \in BagToSet(inflight') : Middleware[r.m].enabled

C19_DisabledPassesThrough == [][C19_Step]_vars

\* a disabled middleware passed an invalid path under the prefix through
\* while the cache held entries
C19_Witness ==
    /\ Done(last)
    /\ ~ Middleware[last.m].enabled
    /\ startsWith(last.pathname, Middleware[last.m].apiPrefix)
    /\ C6_Invalid(last.pagePath)
    /\ last.response.kind = "next"
    /\ cache # << >>

(***************************************************************************)
(* C20: a sweep with T seconds deletes exactly the entries older than T     *)
(* seconds, leaves the others as they are and in their order, decreases     *)
(* the running total by the sum of the sizes of the deleted entries and     *)
(* returns their number.                                                    *)
(***************************************************************************)
C20_Step ==
    ("removedCount" \in DOMAIN last' /\ ~ last'.threw) =>
        LET T == IF last'.argument.typeof = "undefined" THEN 3600
                 ELSE last'.argument.value
            older(e) == now - e.timestamp > T * 1000
        IN  /\ cache' = SelectSeq(cache, LAMBDA e : ~ older(e))
            /\ totalCacheSize - totalCacheSize' = sumSizes(SelectSeq(cache, older))
            /\ last'.removedCount = Len(SelectSeq(cache, older))
            /\ UNCHANGED <<now, inflight>>

C20_SweepRemovesExactlyTheOlder == [][C20_Step]_vars

\* a sweep removed one entry and left a younger one
C20_Witness ==
    /\ "removedCount" \in DOMAIN last
    /\ ~ last.threw
    /\ last.removedCount = 1
    /\ Len(cache) = 1
    /\ now - cache[1].timestamp > 0

(***************************************************************************)
(* C21: a call of clearCache without an argument clears all cached data:    *)
(* whatever the cache held before, afterwards it holds no entry, and the    *)
(* statistics report 0 entries and a total size of 0.                       *)
(***************************************************************************)
C21_Step ==
    ("removedCount" \in DOMAIN last' /\ last'.argument.typeof = "undefined") =>
        /\ ~ last'.threw
        /\ cache' = << >>
        /\ getCacheStats(cache', totalCacheSize').entries = 0
        /\ getCacheStats(cache', totalCacheSize').totalSize = 0

C21_ClearCacheEmptiesTheCache == [][C21_Step]_vars

(***************************************************************************)
(* C22: maxCacheSize is the largest number of entries of the cache: the     *)
(* cache never holds more entries than the maxCacheSize of the middleware   *)
(* that wrote last, a page that was fetched and extracted is written to    *)
(* the cache whenever caching is enabled, and a write evicts only when the  *)
(* number of entries would otherwise exceed maxCacheSize.                   *)
(***************************************************************************)
C22_Step ==
    /\ (Done(last') /\ last'.wrote)
       => Len(cache') <= Middleware[last'.m].maxCacheSize
    /\ (Done(last') /\ last'.extracted /\ Middleware[last'.m].enableCache)
       => /\ last'.wrote
          /\ cacheHas(cache', last'.pagePath)
          /\ last'.evicted > 0
             => Len(cache) + 1 > Middleware[last'.m].maxCacheSize

C22_MaxCacheSizeCountsEntries == [][C22_Step]_vars

(***************************************************************************)
(* C23: a request that missed the cache, or found caching disabled, and     *)
(* whose fetch succeeded returns a PageData with path = the request path    *)
(* without the API prefix, statusCode = 200, html = the fetched markup,     *)
(* contentLength = the length of that markup, receiverUsername = the        *)
(* configuration's, and timestamp and extractedAt denoting one and the      *)
(* same instant.                                                            *)
(***************************************************************************)
\* the epoch instant an ISO-8601 timestamp denotes
C23_EpochOf(iso) ==
    iso.day * 86400000 + iso.hour * 3600000 + iso.minute * 60000
      + iso.second * 1000 + iso.milli

C23_Step ==
    (Done(last') /\ last'.extracted) =>
        LET c == middlewares[last'.m].config
            body == last'.response.body
        IN  /\ last'.response.kind = "json"
            /\ last'.response.status = 200
            /\ c.apiPrefix \o body.path = last'.pathname
            /\ body.statusCode = 200
            /\ body.path \in DOMAIN originPages(last'.host)
            /\ body.html = originPages(last'.host)[body.path]
            /\ body.contentLength = htmlLength(originPages(last'.host)[body.path])
            /\ body.receiverUsername = c.receiverUsername
            /\ C23_EpochOf(body.timestamp) = body.extractedAt
            /\ body.timestamp.hour \in 0..23
            /\ body.timestamp.minute \in 0..59
            /\ body.timestamp.second \in 0..59
            /\ body.timestamp.milli \in 0..999

C23_FreshPageDataIsAssembled == [][C23_Step]_vars

\* a middleware with another prefix and caching disabled returned a page
\* fetched one minute after the start
C23_Witness ==
    /\ Done(last)
    /\ last.extracted
    /\ ~ middlewares[last.m].config.enableCache
    /\ last.pathname = <<"/", "v", "/", "a">>
    /\ last.response.body.path = <<"/", "a">>
    /\ last.response.body.extractedAt = 60000
    /\ last.response.body.timestamp.minute = 1

(***************************************************************************)
(* C24: for a document seen as the sequence of its elements, headings is    *)
(* exactly the subsequence of its h1..h6 elements in document order, each   *)
(* with level = the digit of its tag and text = its trimmed text, the       *)
(* elements whose trimmed text is empty left out; h1 is the trimmed text of *)
(* the first h1 element, and the empty string when there is none.           *)
(***************************************************************************)
\* s without its leading and trailing whitespace
C24_Trimmed(s) ==
    LET inked == {i \in 1..Len(s) : s[i] \notin {" ", "\n", "\t"}}
    IN  IF inked = {} THEN << >>
        ELSE SubSeq(s, CHOOSE i \in inked : \A j \in inked : i <= j,
                       CHOOSE i \in inked : \A j \in inked : i >= j)

C24_Level == [h1 |-> 1, h2 |-> 2, h3 |-> 3, h4 |-> 4, h5 |-> 5, h6 |-> 6]

C24_Headings(html) ==
    LET kept == SelectSeq(html, LAMBDA e : /\ e.tag \in DOMAIN C24_Level
                                           /\ C24_Trimmed(e.text) # << >>)
    IN  [i \in 1..Len(kept) |->
            [level |-> C24_Level[kept[i].tag], text |-> C24_Trimmed(kept[i].text)]]

C24_FirstHeading(html) ==
    LET h1s == {i \in 1..Len(html) : html[i].tag = "h1"}
    IN  IF h1s = {} THEN << >>
        ELSE C24_Trimmed(html[CHOOSE i \in h1s : \A j \in h1s : i <= j].text)

C25_FirstTitle(html) ==
    LET titles == {i \in 1..Len(html) : html[i].tag = "title"}
    IN  IF titles = {} THEN << >>
        ELSE C24_Trimmed(html[CHOOSE i \in titles : \A j \in titles : i <= j].text)

C25_TitleIsTheFirstTitle ==
    (Done(last) /\ last.extracted) =>
        last.response.body.title = C25_FirstTitle(last.response.body.html)

C27_ContentPath(pathname, apiPrefix) ==
    LET rest == SubSeq(pathname, Len(apiPrefix) + 1, Len(pathname))
    IN  IF rest # << >> /\ rest[1] = "/" THEN rest ELSE <<"/">> \o rest

C27_Step ==
    /\ \A r \in Started :
          /\ r.pagePath = C27_ContentPath(r.pathname, Middleware[r.m].apiPrefix)
          /\ r.pagePath[1] = "/"
    /\ (/\ Done(last')
        /\ Middleware[last'.m].enabled
        /\ startsWith(last'.pathname, Middleware[last'.m].apiPrefix))
       => LET key == C27_ContentPath(last'.pathname, Middleware[last'.m].apiPrefix)
              answer == last'.response
          IN  /\ key[1] = "/"
              /\ last'.pagePath = key
              /\ last'.pathname = Middleware[last'.m].apiPrefix => key = <<"/">>
              /\ last'.wrote
                 => /\ cacheHas(cache', key)
                    /\ cacheGet(cache', key).data = answer.body
              /\ (answer.kind = "json" /\ ~ last'.fetched)
                 => /\ cacheHas(cache, key)
                    /\ cacheGet(cache, key).data.html = answer.body.html
                    /\ answer.body.path = key
              /\ (answer.kind = "json" /\ last'.fetched)
                 => /\ key \in DOMAIN originPages(last'.host)
                    /\ answer.body.html = originPages(last'.host)[key]
                    /\ answer.body.path = key
              /\ (answer.kind = "error" /\ last'.fetched /\ last'.thrown.typed
                    /\ last'.thrown.type = "FETCH_ERROR")
                 => key \notin DOMAIN originPages(last'.host)

C27_ContentPathIsTheKey == [][C27_Step]_vars

\* a request path that goes on after the prefix without a "/" was fetched
\* and cached under the content path with the "/" in front
C27_Witness ==
    /\ Done(last)
    /\ last.pathname = <<"/", "a", "p", "i", "a">>
    /\ last.pagePath = <<"/", "a">>
    /\ last.wrote
    /\ cacheHas(cache, <<"/", "a">>)

(***************************************************************************)
(* C28: each request issues at most one fetch.  A fetch is issued only by   *)
(* the step in which its request arrives; a step in which a fetch fails or  *)
(* times out answers the request with an error response and issues no      *)
(* fetch; a request answered on its arrival, from the cache or otherwise,   *)
(* issues none.                                                             *)
(***************************************************************************)
C28_Step ==
    /\ Started # {}
       => /\ ~ Done(last')
          /\ BagCardinality(inflight') = BagCardinality(inflight) + 1
          /\ C11_AwaitingHeaders(inflight') = C11_AwaitingHeaders(inflight) + 1
          /\ timers' = timers + 1
    /\ (now' = now /\ BagCardinality(inflight') < BagCardinality(inflight))
       => /\ Done(last')
          /\ last'.fetched
          /\ Started = {}
          /\ BagCardinality(inflight') = BagCardinality(inflight) - 1
    /\ (Done(last') /\ last'.thrown.type # "none")
       => /\ last'.response.kind = "error"
          /\ Started = {}
          /\ BagCardinality(inflight') <= BagCardinality(inflight)
    /\ (Done(last') /\ ~ last'.fetched)
       => /\ inflight' = inflight
          /\ timers' = timers
    /\ now' = now
       => /\ BagCardinality(inflight') <= BagCardinality(inflight) + 1
          /\ C11_AwaitingHeaders(inflight') > C11_AwaitingHeaders(inflight)
             => Started # {}

C28_OneFetchPerRequest == [][C28_Step]_vars

\* one of two requests for a page failed after the other had cached the
\* page: it was answered with an error and nothing awaits the origin
C28_Witness ==
    /\ Done(last)
    /\ last.fetched
    /\ last.response.kind = "error"
    /\ last.thrown.type \in {"TypeError", "AbortError"}
    /\ cacheHas(cache, last.pagePath)
    /\ inflight = EmptyBag
    /\ timers = 0

(***************************************************************************)
(* C29: a write stops evicting as soon as the running total plus the size   *)
(* of the new entry is within maxCacheSize: it evicts nothing when the new  *)
(* entry fits, and otherwise the shortest run of the oldest entries after   *)
(* which it fits, or all of them when it does not fit even then.  The loop  *)
(* ends and the new entry is in the cache afterwards.                       *)
(***************************************************************************)
\* the new entry fits once the j oldest entries are evicted
C29_Fits(j, size, max) ==
    totalCacheSize - sumSizes(SubSeq(cache, 1, j)) + size <= max

C29_Step ==
    (Done(last') /\ last'.wrote) =>
        LET k == last'.evicted
            size == dataSizeOf(last'.response.body)
            max == Middleware[last'.m].maxCacheSize
        IN  /\ k \in 0..Len(cache)
            /\ Others(cache', last'.pagePath)
                 = Others(SubSeq(cache, k + 1, Len(cache)), last'.pagePath)
            /\ C29_Fits(0, size, max) => k = 0
            /\ \A j \in 0..(k - 1) : ~ C29_Fits(j, size, max)
            /\ C29_Fits(k, size, max) \/ k = Len(cache)
            /\ cacheHas(cache', last'.pagePath)
            /\ cacheGet(cache', last'.pagePath).data = last'.response.body
            /\ cacheGet(cache', last'.pagePath).size = size

C29_EvictionIsMinimal == [][C29_Step]_vars

\* a write evicted the older of two entries, kept the younger and put the
\* new entry behind it
C29_Witness ==
    /\ Done(last)
    /\ last.wrote
    /\ last.evicted = 1
    /\ Len(cache) = 2
    /\ cache[1].key = PathB
    /\ cache[2].key = PathC
    /\ last.pagePath = PathC

(***************************************************************************)
(* C30: the classification tests the prefix first, then the validity of     *)
(* the content path, then the exclusion: a path off the prefix is passed    *)
(* through even with a forbidden character in it, and a content path under  *)
(* the prefix that is invalid is answered 400 INVALID_CONFIG even when it   *)
(* matches a pattern of excludePaths; only a valid path is passed through   *)
(* as excluded.                                                             *)
(***************************************************************************)
C30_Step ==
    (Done(last') /\ Middleware[last'.m].enabled) =>
        LET c == Middleware[last'.m]
            underPrefix == startsWith(last'.pathname, c.apiPrefix)
        IN  /\ ~ underPrefix => last'.response = [kind |-> "next"]
            /\ (underPrefix /\ C6_Invalid(last'.pagePath))
               => last'.response = [kind |-> "error", status |-> 400,
                                    type |-> "INVALID_CONFIG"]
            /\ (underPrefix /\ ~ C6_Invalid(last'.pagePath)
                  /\ C5_Excluded(last'.pagePath, c.excludePaths))
               => last'.response = [kind |-> "next"]
            /\ (underPrefix /\ last'.response.kind = "next")
               => ~ C6_Invalid(last'.pagePath)

C30_PrefixThenValidityThenExclusion == [][C30_Step]_vars

\* a content path with a forbidden character that matches a pattern of
\* excludePaths was answered 400
C30_Witness ==
    /\ Done(last)
    /\ Middleware[last.m].enabled
    /\ last.pathname = <<"/", "a", "p", "i", "/", "p", "/", "*">>
    /\ C5_Excluded(last.pagePath, Middleware[last.m].excludePaths)
    /\ last.response.kind = "error"
    /\ last.response.status = 400
    /\ last.response.type = "INVALID_CONFIG"

(***************************************************************************)
(* C31: a middleware with enableCache false never reads and never modifies  *)
(* the cache: whatever request it handles, answered or failed, the entries  *)
(* and the running total stay as they are; and every request it handles    *)
(* that is not passed through issues a fetch, even when another middleware  *)
(* has cached the path.                                                     *)
(***************************************************************************)
\* the cache is left alone by the requests of the middlewares without a cache
C31_CacheLeftAlone ==
    /\ (Done(last') /\ ~ Middleware[last'.m].enableCache)
       => /\ ~ last'.lookedUp
          /\ ~ last'.wrote
          /\ last'.evicted = 0
          /\ UNCHANGED <<cache, totalCacheSize>>
    /\ \A r \in Started :
          ~ Middleware[r.m].enableCache
          => /\ ~ r.lookedUp
             /\ UNCHANGED <<cache, totalCacheSize>>

C31_OriginalStep ==
    /\ C31_CacheLeftAlone
    /\ (/\ Done(last')
        /\ ~ Middleware[last'.m].enableCache
        /\ last'.response.kind # "next")
       => last'.fetched

C31_EveryNonPassThroughFetches == [][C31_OriginalStep]_vars

\* as amended: the requests that issue a fetch are those with a valid content
\* path under the prefix, not excluded, and with a Host header; an invalid
\* path and a request without a Host header are answered 400 without a fetch
C31_Step ==
    /\ C31_CacheLeftAlone
    /\ (/\ Done(last')
        /\ ~ Middleware[last'.m].enableCache
        /\ Served(Middleware[last'.m], requestOf(last'))
        /\ last'.host # NoHost)
       => last'.fetched
    /\ (/\ Done(last')
        /\ ~ Middleware[last'.m].enableCache
        /\ ~ last'.fetched
        /\ last'.response.kind # "next")
       => /\ last'.response.kind = "error"
          /\ last'.response.status = 400

C31_CachelessNeverTouchesTheCache == [][C31_Step]_vars

\* the middleware without a cache fetched a page that the other middleware
\* had cached, and the entry is as it was
C31_Witness ==
    /\ Done(last)
    /\ ~ Middleware[last.m].enableCache
    /\ last.fetched
    /\ last.response.kind = "json"
    /\ cacheHas(cache, last.pagePath)
    /\ cacheGet(cache, last.pagePath).data.receiverUsername = <<"A">>
    /\ cacheGet(cache, last.pagePath).timestamp < now

(***************************************************************************)
(* C32: eviction follows the insertion timestamps of the entries: a write   *)
(* never evicts an entry while an entry with a strictly older timestamp     *)
(* stays in the cache, also after a path that had an entry was written      *)
(* again.                                                                   *)
(***************************************************************************)
C32_Step ==
    (Done(last') /\ last'.wrote) =>
        \A i \in 1..last'.evicted :
           \A j \in (last'.evicted + 1)..Len(cache) :
              (cache[j].key # last'.pagePath /\ cacheHas(cache', cache[j].key))
              => cache[j].timestamp >= cache[i].timestamp

C32_EvictionFollowsTimestamps == [][C32_Step]_vars

(***************************************************************************)
(* C33: in every reachable state the running total is not negative and not  *)
(* smaller than the sum of the sizes of the entries in the cache.           *)
(***************************************************************************)
C33_TotalCoversTheEntries ==
    /\ totalCacheSize >= 0
    /\ totalCacheSize >= sumSizes(cache)

\* the last entry was removed and the running total is still positive
C33_Witness ==
    /\ cache = << >>
    /\ totalCacheSize > 0
    /\ now > 0

(***************************************************************************)
(* C34: when every middleware has the same limit M, the running total is    *)
(* at most M right after every write to the cache, and so is the sum of the *)
(* sizes of the entries.                                                    *)
(***************************************************************************)
C34_Step ==
    (Done(last') /\ last'.wrote) =>
        /\ totalCacheSize' <= Middleware[last'.m].maxCacheSize
        /\ sumSizes(cache') <= Middleware[last'.m].maxCacheSize

C34_TotalWithinTheLimitAfterWrite == [][C34_Step]_vars

(***************************************************************************)
(* C35: the lookup and the sweep use the same expiry test.  A successful    *)
(* clearCache with duration T removes an entry exactly when a lookup of its *)
(* key with duration T at that instant would take it as expired; every      *)
(* entry left is a hit for such a lookup, and the lookup removes nothing.   *)
(***************************************************************************)
C35_Duration(argument) ==
    IF argument.typeof = "undefined" THEN DEFAULT_CACHE_DURATION ELSE argument.value

C35_Lookup(entries, total, key, T) == getCachedData(entries, total, key, T, now)

C35_Step ==
    ("removedCount" \in DOMAIN last' /\ ~ last'.threw) =>
        LET T == C35_Duration(last'.argument)
        IN  /\ \A i \in 1..Len(cache) :
                 LET lookup == C35_Lookup(cache, totalCacheSize, cache[i].key, T)
                 IN  /\ ~ cacheHas(cache', cache[i].key) <=> ~ lookup.hit
                     /\ ~ lookup.hit => ~ cacheHas(lookup.cache, cache[i].key)
            /\ \A j \in 1..Len(cache') :
                 LET lookup == C35_Lookup(cache', totalCacheSize', cache'[j].key, T)
                 IN  /\ lookup.hit
                     /\ lookup.data = cache'[j].data
                     /\ lookup.cache = cache'
                     /\ lookup.total = totalCacheSize'

C35_SweepAndLookupAgree == [][C35_Step]_vars

\* a sweep with a duration of one second removed an entry and left an entry
\* of exactly that age
C35_Witness ==
    /\ "removedCount" \in DOMAIN last
    /\ ~ last.threw
    /\ last.argument = num(1)
    /\ last.removedCount > 0
    /\ \E j \in 1..Len(cache) : now - cache[j].timestamp = 1000

(***************************************************************************)
(* C36: a cache hit leaves the cache as it is: the stored PageData with its *)
(* stored receiver, the timestamp of the entry (the lifetime is not         *)
(* extended), its size and the running total.  The PageData returned is     *)
(* the stored one except for the receiverUsername.                          *)
(***************************************************************************)
C36_Hit(l) ==
    /\ Done(l)
    /\ l.response.kind = "json"
    /\ l.lookedUp
    /\ ~ l.fetched

C36_Step ==
    C36_Hit(last') =>
        /\ cacheHas(cache, last'.pagePath)
        /\ cache' = cache
        /\ totalCacheSize' = totalCacheSize
        /\ LET stored == cacheGet(cache', last'.pagePath)
           IN  /\ stored.data = cacheGet(cache, last'.pagePath).data
               /\ stored.timestamp = cacheGet(cache, last'.pagePath).timestamp
               /\ stored.size = cacheGet(cache, last'.pagePath).size
               /\ [last'.response.body EXCEPT !.receiverUsername =
                       stored.data.receiverUsername] = stored.data

C36_HitLeavesTheCache == [][C36_Step]_vars

\* a hit for another receiver on an entry written at an earlier instant,
\* which still carries its receiver and its timestamp
C36_Witness ==
    /\ C36_Hit(last)
    /\ cacheHas(cache, last.pagePath)
    /\ cacheGet(cache, last.pagePath).timestamp < now
    /\ cacheGet(cache, last.pagePath).data.extractedAt = cacheGet(cache, last.pagePath).timestamp
    /\ cacheGet(cache, last.pagePath).data.receiverUsername
         # last.response.body.receiverUsername

(***************************************************************************)
(* C37: every PageData returned, fresh or from the cache, carries the       *)
(* markup of the origin of its own request (its Host header) at its content *)
(* path: no request receives the markup that another host serves for the    *)
(* same path.                                                               *)
(***************************************************************************)
C37_MarkupIsTheRequestsOrigins ==
    (Done(last) /\ last.response.kind = "json") =>
        /\ last.response.body.path \in DOMAIN originPages(last.host)
        /\ last.response.body.html
             = originPages(last.host)[last.response.body.path]

=============================================================================
